---- MODULE Spec2Model ----
(***************************************************************************)
(* A model of hxbit.py (src/hxbit/core.py): the HXS binary codec.          *)
(*                                                                         *)
(* A stream is a sequence of bytes (0..255) read at a cursor pos, the      *)
(* number of bytes already consumed (f.tell()).  Every reader is an        *)
(* operator from (stream, cursor) to a record [val, pos, err]; err is the  *)
(* name of the Python exception the code raises there, "" when it raises   *)
(* none.  Python strings are sequences of Unicode code points.             *)
(*                                                                         *)
(* TLC's integers are 32 bits wide, which is the width of a VarInt; wider  *)
(* integers of the program (CRC32, Int64, the bit pattern of a double)     *)
(* are kept as their little-endian base-256 digits.                        *)
(***************************************************************************)
EXTENDS Integers, Sequences, FiniteSets, TLC

VARIABLES
    pc,     \* what the caller did last
    f,      \* the stream handed to a reader, or the bytes a writer returned
    pos,    \* the stream's cursor, f.tell()
    val,    \* self.value of the primitive object at hand, or a Python value
    err,    \* the exception the last call raised, "" when none
    hist,   \* the calls made so far, each with its argument and its result
    hxs,    \* the HXSFile instance
    out,    \* the bytes the last encode returned or wrote
    typ     \* the PropType a value is read or written as

vars == <<pc, f, pos, val, err, hist, hxs, out, typ>>

(***************************************************************************)
(* Bytes and streams                                                       *)
(***************************************************************************)
Min(a, b) == IF a < b THEN a ELSE b

\* The element of a one-element set.  The({e : x \in {v}}) is e with x
\* standing for v: v is computed once and named x in e.
The(S) == CHOOSE x \in S : TRUE

\* The value None.
None == [t |-> "none", v |-> 0]

\* No exception raised.
OK == ""

\* BytesIO.read(n) for n >= 0: up to n bytes from the cursor, which advances past them.
Read(s, p, n) ==
    LET q == Min(p + n, Len(s))
    IN  [bytes |-> SubSeq(s, p + 1, q), pos |-> q]

\* struct.unpack("<i", b): four bytes, little-endian, two's complement.
UnpackI32(b) ==
    b[1] + 256 * b[2] + 65536 * b[3]
         + 16777216 * (IF b[4] >= 128 THEN b[4] - 256 ELSE b[4])

\* struct.pack("<i", v) for a signed 32-bit v.
PackI32(v) ==
    << v % 256, (v \div 256) % 256, (v \div 65536) % 256, (v \div 16777216) % 256 >>

(***************************************************************************)
(* VarInt                                                                  *)
(***************************************************************************)
\* VarInt.serialise with a lead byte other than 0x80 for the long form.
VarIntSerialiseNoMarker(v) ==
    IF 0 <= v /\ v < 128 THEN <<v>> ELSE PackI32(v)

\* VarInt.serialise
VarIntSerialise(v) ==
    IF 0 <= v /\ v < 128 THEN <<v>> ELSE <<128>> \o PackI32(v)

\* VarInt.deserialise: val is self.value after the call (0, the constructor's
\* default, when the call raises).
VarIntDeserialise(s, p) ==
    The({
        IF t.bytes = <<>> THEN [val |-> 0, pos |-> t.pos, err |-> "EOFError"]
        ELSE IF t.bytes[1] = 128
        THEN The({
                 IF Len(pl.bytes) < 4
                 THEN [val |-> 0, pos |-> pl.pos, err |-> "EOFError"]
                 ELSE [val |-> UnpackI32(pl.bytes), pos |-> pl.pos, err |-> OK]
               : pl \in {Read(s, t.pos, 4)} })
        ELSE [val |-> t.bytes[1], pos |-> t.pos, err |-> OK]
      : t \in {Read(s, p, 1)} })

(***************************************************************************)
(* UTF-8, as bytes.decode("utf-8") and str.encode("utf-8") do it           *)
(***************************************************************************)
IsCont(b) == 128 <= b /\ b <= 191

\* The number of bytes of the sequence that starts at s[i], 0 when s[i..] does
\* not start a well-formed sequence.
Utf8SeqLen(s, i) ==
    LET b  == s[i]
        n  == Len(s) - i + 1
        c2 == IF n >= 2 THEN s[i + 1] ELSE 0
        c3 == IF n >= 3 THEN s[i + 2] ELSE 0
        c4 == IF n >= 4 THEN s[i + 3] ELSE 0
    IN  IF b < 128 THEN 1
        ELSE IF 194 <= b /\ b <= 223 THEN (IF IsCont(c2) THEN 2 ELSE 0)
        ELSE IF b = 224 THEN (IF 160 <= c2 /\ c2 <= 191 /\ IsCont(c3) THEN 3 ELSE 0)
        ELSE IF b = 237 THEN (IF 128 <= c2 /\ c2 <= 159 /\ IsCont(c3) THEN 3 ELSE 0)
        ELSE IF 225 <= b /\ b <= 239 THEN (IF IsCont(c2) /\ IsCont(c3) THEN 3 ELSE 0)
        ELSE IF b = 240
        THEN (IF 144 <= c2 /\ c2 <= 191 /\ IsCont(c3) /\ IsCont(c4) THEN 4 ELSE 0)
        ELSE IF b = 244
        THEN (IF 128 <= c2 /\ c2 <= 143 /\ IsCont(c3) /\ IsCont(c4) THEN 4 ELSE 0)
        ELSE IF 241 <= b /\ b <= 243
        THEN (IF IsCont(c2) /\ IsCont(c3) /\ IsCont(c4) THEN 4 ELSE 0)
        ELSE 0

\* The code point of the well-formed n-byte sequence at s[i].
Utf8CodePoint(s, i, n) ==
    IF n = 1 THEN s[i]
    ELSE IF n = 2 THEN (s[i] - 192) * 64 + (s[i + 1] - 128)
    ELSE IF n = 3 THEN (s[i] - 224) * 4096 + (s[i + 1] - 128) * 64 + (s[i + 2] - 128)
    ELSE (s[i] - 240) * 262144 + (s[i + 1] - 128) * 4096
             + (s[i + 2] - 128) * 64 + (s[i + 3] - 128)

\* The positions of s that hold no continuation byte: where the sequences start.
Utf8Leads(s) == {i \in 1..Len(s) : ~IsCont(s[i])}

\* bytes.decode("utf-8"): ok is FALSE where it raises UnicodeDecodeError.  The
\* bytes are well formed when the first is no continuation byte, a well-formed
\* sequence starts at every lead and the byte that follows it is a lead again.
Utf8Decode(s) ==
    LET leads == Utf8Leads(s)
        ok == /\ Len(s) > 0 => ~IsCont(s[1])
              /\ \A i \in leads :
                    LET n == Utf8SeqLen(s, i)
                    IN  n > 0 /\ (i + n <= Len(s) => ~IsCont(s[i + n]))
        at(k) == CHOOSE i \in leads : Cardinality({j \in leads : j < i}) = k - 1
    IN  IF ok
        THEN [ok |-> TRUE,
              str |-> [k \in 1..Cardinality(leads) |->
                          Utf8CodePoint(s, at(k), Utf8SeqLen(s, at(k)))]]
        ELSE [ok |-> FALSE, str |-> <<>>]

\* The UTF-8 bytes of one code point (a surrogate has none).
Utf8Char(c) ==
    IF c < 128 THEN <<c>>
    ELSE IF c < 2048 THEN <<192 + (c \div 64), 128 + (c % 64)>>
    ELSE IF c < 65536
    THEN <<224 + (c \div 4096), 128 + ((c \div 64) % 64), 128 + (c % 64)>>
    ELSE <<240 + (c \div 262144), 128 + ((c \div 4096) % 64),
           128 + ((c \div 64) % 64), 128 + (c % 64)>>

IsSurrogate(c) == 55296 <= c /\ c <= 57343

\* The UTF-8 bytes of the characters str[lo..hi], halving the range.
RECURSIVE Utf8Bytes(_, _, _)
Utf8Bytes(str, lo, hi) ==
    IF lo > hi THEN <<>>
    ELSE IF lo = hi THEN Utf8Char(str[lo])
    ELSE LET mid == (lo + hi) \div 2
         IN  Utf8Bytes(str, lo, mid) \o Utf8Bytes(str, mid + 1, hi)

\* str.encode("utf-8"): ok is FALSE where it raises UnicodeEncodeError.
Utf8Encode(str) ==
    IF \E i \in 1..Len(str) : IsSurrogate(str[i])
    THEN [ok |-> FALSE, bytes |-> <<>>]
    ELSE [ok |-> TRUE, bytes |-> Utf8Bytes(str, 1, Len(str))]

(***************************************************************************)
(* String                                                                  *)
(***************************************************************************)
\* A Python str value.
Str(cps) == [t |-> "str", v |-> cps]

\* String.deserialise's read of the len string bytes at p and their decoding.
StringBytes(s, p, len) ==
    The({
        IF Len(r.bytes) < len THEN [val |-> None, pos |-> r.pos, err |-> "EOFError"]
        ELSE The({
                 IF ~d.ok THEN [val |-> None, pos |-> r.pos, err |-> "ValueError"]
                 ELSE [val |-> Str(d.str), pos |-> r.pos, err |-> OK]
               : d \in {Utf8Decode(r.bytes)} })
      : r \in {Read(s, p, len)} })

\* String.deserialise that reads the prefix as the byte length itself.
StringDeserialiseNoOffset(s, p) ==
    The({
        IF n.err # OK THEN [val |-> None, pos |-> n.pos, err |-> n.err]
        ELSE IF n.val = 0 THEN [val |-> None, pos |-> n.pos, err |-> OK]
        ELSE StringBytes(s, n.pos, n.val)
      : n \in {VarIntDeserialise(s, p)} })

\* String.deserialise: val is self.value after the call (None, the
\* constructor's default, when the call raises).
StringDeserialise(s, p) ==
    The({
        IF n.err # OK THEN [val |-> None, pos |-> n.pos, err |-> n.err]
        ELSE IF n.val = 0 THEN [val |-> None, pos |-> n.pos, err |-> OK]
        ELSE IF n.val - 1 > 0 THEN StringBytes(s, n.pos, n.val - 1)
        ELSE [val |-> Str(<<>>), pos |-> n.pos, err |-> OK]
      : n \in {VarIntDeserialise(s, p)} })

\* String.serialise of a value that is None or a str: the bytes, or the
\* exception str.encode raises.
StringSerialise(v) ==
    IF v = None THEN [bytes |-> VarIntSerialise(0), err |-> OK]
    ELSE The({
             IF ~e.ok THEN [bytes |-> <<>>, err |-> "UnicodeEncodeError"]
             ELSE [bytes |-> VarIntSerialise(Len(e.bytes) + 1) \o e.bytes, err |-> OK]
           : e \in {Utf8Encode(v.v)} })

(***************************************************************************)
(* Fixed-width fields, ClassDef                                            *)
(***************************************************************************)
\* The i-th element of s, 0 past its end.
Digit(s, i) == IF i <= Len(s) THEN s[i] ELSE 0

\* SerialisableInt.deserialise(f, length=n) for an unsigned little-endian
\* integer: the value as its n little-endian digits.  A short read raises
\* nothing: int.from_bytes takes the bytes there are (none give 0).
SerialisableIntDeserialise(s, p, n) ==
    LET r == Read(s, p, n)
    IN  [val |-> [i \in 1..n |-> Digit(r.bytes, i)], pos |-> r.pos, err |-> OK]

\* SerialisableInt.serialise: value.to_bytes(length, "little").
SerialisableIntSerialise(digits) == digits

\* CLID.deserialise: two bytes, big-endian.
CLIDDeserialise(s, p) ==
    LET r == Read(s, p, 2)
    IN  IF Len(r.bytes) < 2 THEN [val |-> 0, pos |-> r.pos, err |-> "EOFError"]
        ELSE [val |-> 256 * r.bytes[1] + r.bytes[2], pos |-> r.pos, err |-> OK]

\* CLID.serialise
CLIDSerialise(v) == <<v \div 256, v % 256>>

\* ClassDef.deserialise, with the name the caller has read already.
ClassDefDeserialise(s, p, name) ==
    The({
        IF c.err # OK
        THEN [val |-> [name |-> name, clid |-> 0, crc32 |-> <<0, 0, 0, 0>>],
              pos |-> c.pos, err |-> c.err]
        ELSE The({
                 [val |-> [name |-> name, clid |-> c.val, crc32 |-> k.val],
                  pos |-> k.pos, err |-> OK]
               : k \in {SerialisableIntDeserialise(s, c.pos, 4)} })
      : c \in {CLIDDeserialise(s, p)} })

\* ClassDef.serialise
ClassDefSerialise(c) ==
    The({
        [bytes |-> n.bytes \o CLIDSerialise(c.clid) \o SerialisableIntSerialise(c.crc32),
         err |-> n.err]
      : n \in {StringSerialise(c.name)} })

\* Boolean.deserialise
BooleanDeserialise(s, p) ==
    LET r == Read(s, p, 1)
    IN  IF r.bytes = <<>> THEN [val |-> FALSE, pos |-> r.pos, err |-> "EOFError"]
        ELSE [val |-> r.bytes[1] # 0, pos |-> r.pos, err |-> OK]

\* Boolean.serialise
BooleanSerialise(b) == IF b THEN <<1>> ELSE <<0>>

(***************************************************************************)
(* The type descriptors: PropTypeDesc.Kind, PropType and its payloads      *)
(***************************************************************************)
PInt == 0
PFloat == 1
PBool == 2
PString == 3
PBytes == 4
PSerializable == 5
PEnum == 6
PMap == 7
PArray == 8
PObj == 9
PAlias == 10
PVector == 11
PNull == 12
PUnknown == 13
PDynamic == 14
PInt64 == 15
PFlags == 16
PCustom == 17
PSerInterface == 18
PStruct == 19
PAliasCDB == 20
PNoSave == 21

\* PropType.kind of a PropType that describes no type (kind is None).
NoKind == -1

\* PropType.MAP: the payload class of each kind.
DefnOf(kind) ==
    IF kind \in {PSerializable, PEnum, PSerInterface} THEN "NameDef"
    ELSE IF kind = PMap THEN "MapDef"
    ELSE IF kind \in {PArray, PAlias, PVector, PNull, PFlags, PAliasCDB, PNoSave}
    THEN "TypeDef"
    ELSE IF kind = PObj THEN "ObjDef"
    ELSE IF kind = PStruct THEN "Struct"
    ELSE "Empty"

\* PropType(): kind and defn are None.
NoDefn == [d |-> "None"]
NullPropType == [kind |-> NoKind, defn |-> NoDefn]

\* A Python None where an object is expected (ObjFieldDef.name, ObjFieldDef.type).
Absent == [t |-> "absent", v |-> 0]

\* ObjFieldDef()
NewObjFieldDef == [name |-> Absent, type |-> Absent, opt |-> FALSE]

\* x & bit for bit 1 or 2 and any 32-bit x.
HasBit(x, bit) == (x \div bit) % 2 = 1

RECURSIVE PropTypeDeserialise(_, _)
RECURSIVE ObjFieldDefDeserialise(_, _)
RECURSIVE ObjDefFields(_, _, _, _)
RECURSIVE StructFields(_, _, _, _)

\* The payload's deserialise of the class PropType.MAP gives for the kind.
DefnDeserialise(s, p, kind) ==
    IF DefnOf(kind) = "Empty" THEN [val |-> [d |-> "Empty"], pos |-> p, err |-> OK]
    ELSE IF DefnOf(kind) = "NameDef"
    THEN The({
             [val |-> [d |-> "NameDef", name |-> n.val], pos |-> n.pos, err |-> n.err]
           : n \in {StringDeserialise(s, p)} })
    ELSE IF DefnOf(kind) = "TypeDef"
    THEN The({
             [val |-> [d |-> "TypeDef", type |-> t.val], pos |-> t.pos, err |-> t.err]
           : t \in {PropTypeDeserialise(s, p)} })
    ELSE IF DefnOf(kind) = "MapDef"
    THEN The({
             IF k.err # OK THEN [val |-> NoDefn, pos |-> k.pos, err |-> k.err]
             ELSE The({
                      [val |-> [d |-> "MapDef", key_type |-> k.val,
                                value_type |-> w.val],
                       pos |-> w.pos, err |-> w.err]
                    : w \in {PropTypeDeserialise(s, k.pos)} })
           : k \in {PropTypeDeserialise(s, p)} })
    ELSE IF DefnOf(kind) = "ObjDef"
    THEN The({
             IF n.err # OK THEN [val |-> NoDefn, pos |-> n.pos, err |-> n.err]
             ELSE IF n.val > 1
             THEN The({
                      [val |-> [d |-> "ObjDef", fields |-> fs.val],
                       pos |-> fs.pos, err |-> fs.err]
                    : fs \in {ObjDefFields(s, n.pos, n.val - 1, <<>>)} })
             ELSE [val |-> [d |-> "ObjDef", fields |-> <<>>], pos |-> n.pos, err |-> OK]
           : n \in {VarIntDeserialise(s, p)} })
    ELSE \* Struct
         The({
             IF nm.err # OK THEN [val |-> NoDefn, pos |-> nm.pos, err |-> nm.err]
             ELSE The({
                      IF n.err # OK THEN [val |-> NoDefn, pos |-> n.pos, err |-> n.err]
                      ELSE The({
                               [val |-> [d |-> "Struct", name |-> nm.val,
                                         fields |-> fs.val],
                                pos |-> fs.pos, err |-> fs.err]
                             : fs \in {StructFields(s, n.pos, n.val, <<>>)} })
                    : n \in {VarIntDeserialise(s, nm.pos)} })
           : nm \in {StringDeserialise(s, p)} })

\* PropType.deserialise.  PropTypeDesc(haxe_index) raises ValueError for an
\* index that is no member of Kind.
PropTypeDeserialise(s, p) ==
    The({
        IF b.bytes = <<>> THEN [val |-> NullPropType, pos |-> b.pos, err |-> "EOFError"]
        ELSE IF b.bytes[1] = 0 THEN [val |-> NullPropType, pos |-> b.pos, err |-> OK]
        ELSE IF b.bytes[1] - 1 > PNoSave
        THEN [val |-> NullPropType, pos |-> b.pos, err |-> "ValueError"]
        ELSE The({
                 [val |-> [kind |-> b.bytes[1] - 1, defn |-> d.val],
                  pos |-> d.pos, err |-> d.err]
               : d \in {DefnDeserialise(s, b.pos, b.bytes[1] - 1)} })
      : b \in {Read(s, p, 1)} })

\* The name of an ObjFieldDef whose flags are v, read at p.
ObjFieldDefName(s, p, v) ==
    IF HasBit(v, 1) THEN StringDeserialise(s, p)
    ELSE [val |-> Absent, pos |-> p, err |-> OK]

\* The type of an ObjFieldDef whose flags are v, read at p: None when the
\* PropType read has no kind.
ObjFieldDefType(s, p, v) ==
    IF HasBit(v, 2)
    THEN The({
             [val |-> IF t.val.kind = NoKind THEN Absent ELSE t.val,
              pos |-> t.pos, err |-> t.err]
           : t \in {PropTypeDeserialise(s, p)} })
    ELSE [val |-> Absent, pos |-> p, err |-> OK]

\* ObjFieldDef.deserialise
ObjFieldDefDeserialise(s, p) ==
    The({
        IF fbits.err # OK
        THEN [val |-> NewObjFieldDef, pos |-> fbits.pos, err |-> fbits.err]
        ELSE IF fbits.val = 0
        THEN The({
                 [val |-> [NewObjFieldDef EXCEPT !.opt = o.val],
                  pos |-> o.pos, err |-> o.err]
               : o \in {BooleanDeserialise(s, fbits.pos)} })
        ELSE The({
                 IF nm.err # OK
                 THEN [val |-> NewObjFieldDef, pos |-> nm.pos, err |-> nm.err]
                 ELSE The({
                          IF ty.err # OK
                          THEN [val |-> NewObjFieldDef, pos |-> ty.pos, err |-> ty.err]
                          ELSE The({
                                   [val |-> [name |-> nm.val, type |-> ty.val,
                                             opt |-> o.val],
                                    pos |-> o.pos, err |-> o.err]
                                 : o \in {BooleanDeserialise(s, ty.pos)} })
                        : ty \in {ObjFieldDefType(s, nm.pos, fbits.val - 1)} })
               : nm \in {ObjFieldDefName(s, fbits.pos, fbits.val - 1)} })
      : fbits \in {VarIntDeserialise(s, p)} })

\* ObjDef.deserialise's loop: n more fields after those of acc.
ObjDefFields(s, p, n, acc) ==
    IF n <= 0 THEN [val |-> acc, pos |-> p, err |-> OK]
    ELSE The({
             IF fd.err # OK THEN [val |-> acc, pos |-> fd.pos, err |-> fd.err]
             ELSE ObjDefFields(s, fd.pos, n - 1, Append(acc, fd.val))
           : fd \in {ObjFieldDefDeserialise(s, p)} })

\* Struct.deserialise's loop: n more fields after those of acc.
StructFields(s, p, n, acc) ==
    IF n <= 0 THEN [val |-> acc, pos |-> p, err |-> OK]
    ELSE The({
             IF nm.err # OK THEN [val |-> acc, pos |-> nm.pos, err |-> nm.err]
             ELSE The({
                      IF t.err # OK THEN [val |-> acc, pos |-> t.pos, err |-> t.err]
                      ELSE StructFields(s, t.pos, n - 1,
                                        Append(acc, [name |-> nm.val, type |-> t.val]))
                    : t \in {PropTypeDeserialise(s, nm.pos)} })
           : nm \in {StringDeserialise(s, p)} })

\* The concatenation of the byte strings of ss, halving the range lo..hi.
RECURSIVE JoinRange(_, _, _)
JoinRange(ss, lo, hi) ==
    IF lo > hi THEN <<>>
    ELSE IF lo = hi THEN ss[lo]
    ELSE LET mid == (lo + hi) \div 2
         IN  JoinRange(ss, lo, mid) \o JoinRange(ss, mid + 1, hi)

\* b"".join(ss)
Join(ss) == JoinRange(ss, 1, Len(ss))

RECURSIVE PropTypeSerialise(_)

\* ObjFieldDef.serialise.  A String, a PropType and a Boolean object are all
\* truthy, so name, type and opt are written whenever they are not None.
ObjFieldDefSerialise(fd) ==
    VarIntSerialise((IF fd.name # Absent THEN 1 ELSE 0)
                    + (IF fd.type # Absent THEN 2 ELSE 0) + 1)
    \o (IF fd.name # Absent THEN StringSerialise(fd.name).bytes ELSE <<>>)
    \o (IF fd.type # Absent THEN PropTypeSerialise(fd.type) ELSE <<>>)
    \o BooleanSerialise(fd.opt)

\* The payload's serialise.
DefnSerialise(defn) ==
    IF defn.d = "Empty" THEN <<>>
    ELSE IF defn.d = "NameDef" THEN StringSerialise(defn.name).bytes
    ELSE IF defn.d = "TypeDef" THEN PropTypeSerialise(defn.type)
    ELSE IF defn.d = "MapDef"
    THEN PropTypeSerialise(defn.key_type) \o PropTypeSerialise(defn.value_type)
    ELSE IF defn.d = "ObjDef"
    THEN VarIntSerialise(Len(defn.fields) + 1)
         \o Join([i \in 1..Len(defn.fields) |-> ObjFieldDefSerialise(defn.fields[i])])
    ELSE \* Struct
         StringSerialise(defn.name).bytes
         \o VarIntSerialise(Len(defn.fields))
         \o Join([i \in 1..Len(defn.fields) |->
                    StringSerialise(defn.fields[i].name).bytes
                    \o PropTypeSerialise(defn.fields[i].type)])

\* PropType.serialise (PropTypeDesc.serialise writes the kind plus one).
PropTypeSerialise(pt) ==
    IF pt.kind = NoKind THEN <<0>>
    ELSE <<pt.kind + 1>> \o (IF pt.defn # NoDefn THEN DefnSerialise(pt.defn) ELSE <<>>)

(***************************************************************************)
(* Schema                                                                  *)
(***************************************************************************)
\* Schema(): classdef is the index in classdefs of the linked ClassDef, 0 for None.
NewSchema == [uid |-> 0, clid |-> 0, field_names |-> <<>>, field_types |-> <<>>,
              classdef |-> 0]

RECURSIVE SchemaNames(_, _, _, _)
\* Schema.deserialise's first loop: n more field names after those of acc.
SchemaNames(s, p, n, acc) ==
    IF n <= 0 THEN [val |-> acc, pos |-> p, err |-> OK]
    ELSE The({
             IF nm.err # OK THEN [val |-> acc, pos |-> nm.pos, err |-> nm.err]
             ELSE SchemaNames(s, nm.pos, n - 1, Append(acc, nm.val))
           : nm \in {StringDeserialise(s, p)} })

RECURSIVE SchemaTypes(_, _, _, _)
\* Schema.deserialise's second loop: n more field types after those of acc.
SchemaTypes(s, p, n, acc) ==
    IF n <= 0 THEN [val |-> acc, pos |-> p, err |-> OK]
    ELSE The({
             IF t.err # OK THEN [val |-> acc, pos |-> t.pos, err |-> t.err]
             ELSE SchemaTypes(s, t.pos, n - 1, Append(acc, t.val))
           : t \in {PropTypeDeserialise(s, p)} })

\* The field names of a schema whose count VarInt nn has been read.
SchemaNamesOf(s, nn) ==
    IF nn.val > 1 THEN SchemaNames(s, nn.pos, nn.val - 1, <<>>)
    ELSE [val |-> <<>>, pos |-> nn.pos, err |-> OK]

\* The field types of a schema whose count VarInt nt has been read.
SchemaTypesOf(s, nt) ==
    IF nt.val > 1 THEN SchemaTypes(s, nt.pos, nt.val - 1, <<>>)
    ELSE [val |-> <<>>, pos |-> nt.pos, err |-> OK]

\* Schema.deserialise
SchemaDeserialise(s, p) ==
    The({
     IF uid.err # OK THEN [val |-> NewSchema, pos |-> uid.pos, err |-> uid.err]
     ELSE The({
      IF clid.err # OK THEN [val |-> NewSchema, pos |-> clid.pos, err |-> clid.err]
      ELSE The({
       IF nn.err # OK THEN [val |-> NewSchema, pos |-> nn.pos, err |-> nn.err]
       ELSE The({
        IF names.err # OK
        THEN [val |-> NewSchema, pos |-> names.pos, err |-> names.err]
        ELSE The({
         IF nt.err # OK THEN [val |-> NewSchema, pos |-> nt.pos, err |-> nt.err]
         ELSE The({
               [val |-> [uid |-> uid.val, clid |-> clid.val,
                         field_names |-> names.val, field_types |-> types.val,
                         classdef |-> 0],
                pos |-> types.pos, err |-> types.err]
             : types \in {SchemaTypesOf(s, nt)} })
         : nt \in {VarIntDeserialise(s, names.pos)} })
        : names \in {SchemaNamesOf(s, nn)} })
       : nn \in {VarIntDeserialise(s, clid.pos)} })
      : clid \in {VarIntDeserialise(s, uid.pos)} })
     : uid \in {VarIntDeserialise(s, p)} })

\* Schema.serialise that writes the two counts without the offset of one.
SchemaSerialiseUnframed(sc) ==
    VarIntSerialise(sc.uid) \o VarIntSerialise(sc.clid)
    \o VarIntSerialise(Len(sc.field_names))
    \o Join([i \in 1..Len(sc.field_names) |-> StringSerialise(sc.field_names[i]).bytes])
    \o VarIntSerialise(Len(sc.field_types))
    \o Join([i \in 1..Len(sc.field_types) |-> PropTypeSerialise(sc.field_types[i])])

\* Schema.serialise
SchemaSerialise(sc) ==
    VarIntSerialise(sc.uid)
    \o VarIntSerialise(sc.clid)
    \o VarIntSerialise(Len(sc.field_names) + 1)
    \o Join([i \in 1..Len(sc.field_names) |-> StringSerialise(sc.field_names[i]).bytes])
    \o VarIntSerialise(Len(sc.field_types) + 1)
    \o Join([i \in 1..Len(sc.field_types) |-> PropTypeSerialise(sc.field_types[i])])

(***************************************************************************)
(* Python values.  A decoded value is a record [t, v]: None, an int, a     *)
(* bool, a str (code points), a float and a 64-bit int (both as their 8    *)
(* little-endian bytes), a list, a dict (its items in insertion order) or  *)
(* a reference to an Obj, v being the Obj's place in the heap.             *)
(***************************************************************************)
PyInt(n) == [t |-> "int", v |-> n]
PyBool(b) == [t |-> "bool", v |-> b]
PyFloat(b) == [t |-> "float", v |-> b]
PyLong(b) == [t |-> "long", v |-> b]
PyList(x) == [t |-> "list", v |-> x]
PyDict(x) == [t |-> "dict", v |-> x]
ObjRef(i) == [t |-> "obj", v |-> i]

\* The characters of a string literal of the program.
Chars(lit) ==
    LET code == [c \in {"<", ">", "(", ")", "_", "-", "E", "N", "a", "d", "e", "m",
                        "n", "o", "u"} |->
                   CASE c = "<" -> 60 [] c = ">" -> 62 [] c = "(" -> 40 [] c = ")" -> 41
                     [] c = "_" -> 95 [] c = "-" -> 45 [] c = "E" -> 69 [] c = "N" -> 78
                     [] c = "a" -> 97 [] c = "d" -> 100 [] c = "e" -> 101
                     [] c = "m" -> 109 [] c = "n" -> 110 [] c = "o" -> 111
                     [] c = "u" -> 117]
    IN  [i \in 1..Len(lit) |-> code[lit[i]]]

\* The decimal digits of n >= 0, as characters.
RECURSIVE Digits(_)
Digits(n) == IF n < 10 THEN <<48 + n>> ELSE Append(Digits(n \div 10), 48 + (n % 10))

\* str(n) for an int n.
IntToStr(n) ==
    IF n >= 0 THEN Digits(n)
    ELSE IF n = -2147483647 - 1 THEN Chars(<<"-">>) \o Digits(214748364) \o <<56>>
    ELSE Chars(<<"-">>) \o Digits(-n)

\* A float that is a NaN: exponent all ones, mantissa not zero.
FloatIsNaN(b) ==
    /\ b[8] % 128 = 127 /\ b[7] \div 16 = 15
    /\ (b[7] % 16 # 0 \/ \E i \in 1..6 : b[i] # 0)

\* A float that is +0.0 or -0.0.
FloatIsZero(b) == b[8] % 128 = 0 /\ \A i \in 1..7 : b[i] = 0

\* Whether a dict takes keys a and b for the same key: a == b in Python, for
\* two values decoded by the same type.  A NaN equals nothing, and each NaN
\* read is an object of its own; the two zeros are equal.
KeyEq(a, b) ==
    /\ a.t = b.t
    /\ IF a.t = "float"
       THEN /\ ~FloatIsNaN(a.v)
            /\ (a.v = b.v \/ (FloatIsZero(a.v) /\ FloatIsZero(b.v)))
       ELSE a.v = b.v

\* A value with no hash: a list or a dict.
Unhashable(x) == x.t \in {"list", "dict"}

\* d.get(k) for the items d of a dict.
DictGet(d, k) ==
    IF \E i \in 1..Len(d) : KeyEq(d[i][1], k)
    THEN d[CHOOSE i \in 1..Len(d) : KeyEq(d[i][1], k)][2]
    ELSE None

\* The items of a dict after d[k] = x: an equal key keeps its place and its
\* key object, a new key goes last.
DictSet(d, k, x) ==
    IF \E i \in 1..Len(d) : KeyEq(d[i][1], k)
    THEN [i \in 1..Len(d) |-> IF KeyEq(d[i][1], k) THEN <<d[i][1], x>> ELSE d[i]]
    ELSE Append(d, <<k, x>>)

(***************************************************************************)
(* HXSFile.  An instance is a record m: the stream it reads and the cursor *)
(* (f, pos), its fields, the heap of the Obj instances created so far      *)
(* (Obj.schema as the schema's index in schemas, Obj.fields as a dict),    *)
(* the exception raised (err) and, for the record, the events of the       *)
(* object graph walk (log).                                                *)
(***************************************************************************)
\* HXSFile.__init__
NewHXSFile ==
    [f |-> <<>>, pos |-> 0, err |-> OK,
     magic |-> Str(<<72, 88, 83>>), version |-> 1,
     classdefs |-> <<>>, schema_size |-> 0, schemas |-> <<>>,
     objects |-> <<>>, obj |-> None, heap |-> <<>>,
     buffer |-> <<>>, written_objects |-> <<>>, next_uid |-> 1,
     log |-> <<>>]

\* A reader's result: the instance after the call and the value returned.
Ret(m, x) == [m |-> m, val |-> x]

\* The instance after raising e.
Raise(m, e) == [m EXCEPT !.err = e]

\* The instance after the primitive read r of its stream.
Took(m, r) == [m EXCEPT !.pos = r.pos, !.err = r.err]

\* One event of the walk: what happened, to which Obj, under which UID, and
\* the cursor (decode) or the buffer length (encode) before and after.
Event(e, o, uid, from, to) == [e |-> e, obj |-> o, uid |-> uid, from |-> from, to |-> to]

Logged(m, ev) == [m EXCEPT !.log = Append(@, ev)]

\* HXSFile._is_field_nullable, for a PropType or an absent one.
RECURSIVE IsFieldNullable(_)
IsFieldNullable(pt) ==
    IF pt = Absent \/ pt.kind = NoKind THEN TRUE
    ELSE IF pt.kind \in {PInt, PFloat, PBool, PInt64, PFlags} THEN FALSE
    ELSE IF pt.kind \in {PAlias, PAliasCDB, PNoSave} /\ pt.defn.d = "TypeDef"
    THEN IsFieldNullable(pt.defn.type)
    ELSE TRUE

\* (bits & (1 << k)) != 0 for a 32-bit bits: from bit 31 on a Python int
\* repeats its sign.
BitSet(bits, k) == IF k >= 31 THEN bits < 0 ELSE (bits \div (2 ^ k)) % 2 = 1

\* HXSFile.get_class_by_name: the index of the class's schema, or the exception.
GetClassByName(m, name) ==
    LET hits == {i \in 1..Len(m.classdefs) : m.classdefs[i].name = name}
    IN  IF hits = {} THEN [idx |-> 0, err |-> "ValueError"]
        ELSE LET i == CHOOSE x \in hits : \A y \in hits : x <= y
             IN  IF i <= Len(m.schemas) THEN [idx |-> i, err |-> OK]
                 ELSE [idx |-> 0, err |-> "IndexError"]

\* f"<unnamed_{bit_idx}>"
UnnamedKey(bit_idx) ==
    Str(Chars(<<"<", "u", "n", "n", "a", "m", "e", "d", "_">>)
        \o IntToStr(bit_idx) \o Chars(<<">">>))

\* The key of a PObj field in the decoded dict.
FieldKey(fd, bit_idx) == IF fd.name # Absent THEN fd.name ELSE UnnamedKey(bit_idx)

\* f"Enum<{name}>({index})"
EnumStr(name, index) ==
    Str(Chars(<<"E", "n", "u", "m", "<">>)
        \o (IF name = None THEN Chars(<<"N", "o", "n", "e">>) ELSE name.v)
        \o Chars(<<">", "(">>) \o IntToStr(index) \o Chars(<<")">>))

(***************************************************************************)
(* Decoding values and object references                                   *)
(***************************************************************************)
\* raise NotImplementedError(...), the last branch of both value codecs.
UnsupportedSilent(m) == m

Unsupported(m) == Raise(m, "NotImplementedError")

RECURSIVE ReadValue(_, _)
RECURSIVE ReadItems(_, _, _, _)
RECURSIVE ReadPairs(_, _, _, _, _)
RECURSIVE ReadObjFields(_, _, _, _, _, _)
RECURSIVE ObjDeserialiseFrom(_, _, _)
RECURSIVE ReadRef(_, _)

\* Obj(schema, context): a new instance at the end of the heap.
NewObj(m, schemaIdx) ==
    [m EXCEPT !.heap = Append(@, [schema |-> schemaIdx, fields |-> <<>>])]

\* self.objects = {uid: obj}: a table that keeps the latest entry only.
RegisterOnly(m, uid, id) == [m EXCEPT !.objects = (uid :> ObjRef(id))]

\* self.objects[uid] = obj
Register(m, uid, id) == [m EXCEPT !.objects = (uid :> ObjRef(id)) @@ @]

\* Obj.deserialise, from the i-th field of its schema on.  (A Schema object
\* is truthy, so the guard on self.schema never returns early.)
ObjDeserialiseFrom(m, id, i) ==
    LET sc == m.schemas[m.heap[id].schema]
    IN  IF i > Len(sc.field_names)
        THEN Logged(m, Event("decoded", id, 0, m.pos, m.pos))
        ELSE IF i > Len(sc.field_types) THEN Raise(m, "IndexError")
        ELSE IF sc.field_names[i] = None THEN Raise(m, "AssertionError")
        ELSE The({
                 IF r.m.err # OK THEN r.m
                 ELSE ObjDeserialiseFrom(
                          [r.m EXCEPT !.heap[id].fields =
                                          DictSet(@, sc.field_names[i], r.val)],
                          id, i + 1)
               : r \in {ReadValue(m, sc.field_types[i])} })

\* The UID under which Obj id is in the uid->Obj table, 0 when under none.
RegisteredUid(m, id) ==
    IF \E u \in DOMAIN m.objects : m.objects[u] = ObjRef(id)
    THEN CHOOSE u \in DOMAIN m.objects : m.objects[u] = ObjRef(id)
    ELSE 0

\* Obj.deserialise
ObjDeserialise(m, id) ==
    ObjDeserialiseFrom(Logged(m, Event("fields", id, RegisteredUid(m, id), m.pos, m.pos)),
                       id, 1)

\* HXSFile._read_ref that registers the new Obj only after its fields are decoded.
ReadRefRegisterLate(m, schemaIdx) ==
    The({
        IF u.err # OK THEN Ret(Took(m, u), None)
        ELSE IF u.val = 0
        THEN Ret(Logged(Took(m, u), Event("null", 0, 0, m.pos, u.pos)), None)
        ELSE IF u.val \in DOMAIN m.objects
        THEN Ret(Logged(Took(m, u),
                        Event("seen", m.objects[u.val].v, u.val, m.pos, u.pos)),
                 m.objects[u.val])
        ELSE LET id == Len(m.heap) + 1
                 m2 == Logged(NewObj(Took(m, u), schemaIdx),
                              Event("new", id, u.val, m.pos, u.pos))
             IN  Ret(Register(ObjDeserialise(m2, id), u.val, id), ObjRef(id))
      : u \in {VarIntDeserialise(m.f, m.pos)} })

\* HXSFile._read_ref that never looks the UID up.
ReadRefNoLookup(m, schemaIdx) ==
    The({
        IF u.err # OK THEN Ret(Took(m, u), None)
        ELSE IF u.val = 0
        THEN Ret(Logged(Took(m, u), Event("null", 0, 0, m.pos, u.pos)), None)
        ELSE LET id == Len(m.heap) + 1
                 m2 == Logged(Register(NewObj(Took(m, u), schemaIdx), u.val, id),
                              Event("new", id, u.val, m.pos, u.pos))
             IN  Ret(ObjDeserialise(m2, id), ObjRef(id))
      : u \in {VarIntDeserialise(m.f, m.pos)} })

\* HXSFile._read_ref
ReadRef(m, schemaIdx) ==
    The({
        IF u.err # OK THEN Ret(Took(m, u), None)
        ELSE IF u.val = 0
        THEN Ret(Logged(Took(m, u), Event("null", 0, 0, m.pos, u.pos)), None)
        ELSE IF u.val \in DOMAIN m.objects
        THEN Ret(Logged(Took(m, u),
                        Event("seen", m.objects[u.val].v, u.val, m.pos, u.pos)),
                 m.objects[u.val])
        ELSE LET id == Len(m.heap) + 1
                 m2 == Logged(Register(NewObj(Took(m, u), schemaIdx), u.val, id),
                              Event("new", id, u.val, m.pos, u.pos))
             IN  Ret(ObjDeserialise(m2, id), ObjRef(id))
      : u \in {VarIntDeserialise(m.f, m.pos)} })

\* HXSFile._read_root_object that takes the first schema only once it has
\* read a UID that is not 0.
ReadRootObjectUidFirst(m) ==
    The({
        IF u.err # OK THEN Ret(Took(m, u), None)
        ELSE IF u.val = 0
        THEN Ret(Logged(Took(m, u), Event("null", 0, 0, m.pos, u.pos)), None)
        ELSE IF Len(m.schemas) = 0 THEN Ret(Raise(Took(m, u), "IndexError"), None)
        ELSE LET id == Len(m.heap) + 1
                 m2 == Logged(Register(NewObj(Took(m, u), 1), u.val, id),
                              Event("new", id, u.val, m.pos, u.pos))
             IN  Ret(ObjDeserialise(m2, id), ObjRef(id))
      : u \in {VarIntDeserialise(m.f, m.pos)} })

\* HXSFile._read_root_object
ReadRootObject(m) ==
    IF Len(m.schemas) = 0 THEN Ret(Raise(m, "IndexError"), None)
    ELSE The({
             IF u.err # OK THEN Ret(Took(m, u), None)
             ELSE IF u.val = 0
             THEN Ret(Logged(Took(m, u), Event("null", 0, 0, m.pos, u.pos)), None)
             ELSE LET id == Len(m.heap) + 1
                      m2 == Logged(Register(NewObj(Took(m, u), 1), u.val, id),
                                   Event("new", id, u.val, m.pos, u.pos))
                  IN  Ret(ObjDeserialise(m2, id), ObjRef(id))
           : u \in {VarIntDeserialise(m.f, m.pos)} })

\* The list comprehension of the PArray branch: n more items after those of acc.
ReadItems(m, pt, n, acc) ==
    IF n <= 0 THEN Ret(m, PyList(acc))
    ELSE The({
             IF r.m.err # OK THEN Ret(r.m, None)
             ELSE ReadItems(r.m, pt, n - 1, Append(acc, r.val))
           : r \in {ReadValue(m, pt)} })

\* The dict comprehension of the PMap branch: n more pairs after those of acc.
\* The key is read before the value; storing under a list or a dict raises.
ReadPairs(m, kt, vt, n, acc) ==
    IF n <= 0 THEN Ret(m, PyDict(acc))
    ELSE The({
             IF k.m.err # OK THEN Ret(k.m, None)
             ELSE The({
                      IF w.m.err # OK THEN Ret(w.m, None)
                      ELSE IF Unhashable(k.val) THEN Ret(Raise(w.m, "TypeError"), None)
                      ELSE ReadPairs(w.m, kt, vt, n - 1, DictSet(acc, k.val, w.val))
                    : w \in {ReadValue(k.m, vt)} })
           : k \in {ReadValue(m, kt)} })

\* String().deserialise(f).value, the instance's cursor moved.
ReadString(m) ==
    The({ Ret(Took(m, r), r.val) : r \in {StringDeserialise(m.f, m.pos)} })

\* The loop of the PObj branch where every field takes a bit of bits.
ReadObjFieldsEveryBit(m, fields, i, bits, bit_idx, acc) ==
    IF i > Len(fields) THEN Ret(m, PyDict(acc))
    ELSE LET fd       == fields[i]
             key      == FieldKey(fd, bit_idx)
             nullable == IsFieldNullable(fd.type)
             present  == BitSet(bits, bit_idx)
             next_idx == bit_idx + 1
         IN  IF present
             THEN The({
                      IF r.m.err # OK THEN Ret(r.m, None)
                      ELSE ReadObjFields(
                               Logged(r.m, Event("rfield", i, 1, m.pos, r.m.pos)),
                               fields, i + 1, bits, next_idx,
                               DictSet(acc, key, r.val))
                    : r \in {IF fd.type # Absent THEN ReadValue(m, fd.type)
                             ELSE ReadString(m)} })
             ELSE ReadObjFields(Logged(m, Event("rfield", i, 0, m.pos, m.pos)),
                                fields, i + 1, bits, next_idx,
                                DictSet(acc, key, None))

\* The loop of the PObj branch, from the i-th declared field on.  The log
\* takes an event "rfield" per field: whether it was read, and where.
ReadObjFields(m, fields, i, bits, bit_idx, acc) ==
    IF i > Len(fields) THEN Ret(m, PyDict(acc))
    ELSE LET fd       == fields[i]
             key      == FieldKey(fd, bit_idx)
             nullable == IsFieldNullable(fd.type)
             present  == IF nullable THEN BitSet(bits, bit_idx) ELSE TRUE
             next_idx == IF nullable THEN bit_idx + 1 ELSE bit_idx
         IN  IF present
             THEN The({
                      IF r.m.err # OK THEN Ret(r.m, None)
                      ELSE ReadObjFields(
                               Logged(r.m, Event("rfield", i, 1, m.pos, r.m.pos)),
                               fields, i + 1, bits, next_idx,
                               DictSet(acc, key, r.val))
                    : r \in {IF fd.type # Absent THEN ReadValue(m, fd.type)
                             ELSE ReadString(m)} })
             ELSE ReadObjFields(Logged(m, Event("rfield", i, 0, m.pos, m.pos)),
                                fields, i + 1, bits, next_idx,
                                DictSet(acc, key, None))

\* HXSFile._read_value, for a PropType or an absent one.
ReadValue(m, pt) ==
    IF pt = Absent \/ pt.kind = NoKind THEN Ret(m, None)
    ELSE
    LET kind == pt.kind
        defn == pt.defn
    IN  IF kind \in {PInt, PFlags}
        THEN The({ Ret(Took(m, r), PyInt(r.val)) : r \in {VarIntDeserialise(m.f, m.pos)} })
        ELSE IF kind = PFloat
        THEN The({
                 IF Len(r.bytes) < 8
                 THEN Ret([m EXCEPT !.pos = r.pos, !.err = "struct.error"], None)
                 ELSE Ret([m EXCEPT !.pos = r.pos], PyFloat(r.bytes))
               : r \in {Read(m.f, m.pos, 8)} })
        ELSE IF kind = PBool
        THEN The({
                 IF r.bytes = <<>>
                 THEN Ret([m EXCEPT !.pos = r.pos, !.err = "IndexError"], None)
                 ELSE Ret([m EXCEPT !.pos = r.pos], PyBool(r.bytes[1] # 0))
               : r \in {Read(m.f, m.pos, 1)} })
        ELSE IF kind = PInt64
        THEN The({
                 IF Len(r.bytes) < 8
                 THEN Ret([m EXCEPT !.pos = r.pos, !.err = "struct.error"], None)
                 ELSE Ret([m EXCEPT !.pos = r.pos], PyLong(r.bytes))
               : r \in {Read(m.f, m.pos, 8)} })
        ELSE IF kind \in {PString, PBytes}
        THEN ReadString(m)
        ELSE IF kind = PArray /\ defn.d = "TypeDef"
        THEN The({
                 IF c.err # OK \/ c.val = 0 THEN Ret(Took(m, c), None)
                 ELSE ReadItems(Took(m, c), defn.type, c.val - 1, <<>>)
               : c \in {VarIntDeserialise(m.f, m.pos)} })
        ELSE IF kind = PMap /\ defn.d = "MapDef"
        THEN The({
                 IF c.err # OK \/ c.val = 0 THEN Ret(Took(m, c), None)
                 ELSE ReadPairs(Took(m, c), defn.key_type, defn.value_type,
                                c.val - 1, <<>>)
               : c \in {VarIntDeserialise(m.f, m.pos)} })
        ELSE IF kind = PSerializable /\ defn.d = "NameDef"
        THEN IF defn.name = None THEN Ret(Raise(m, "AssertionError"), None)
             ELSE The({
                      IF c.err # OK THEN Ret(Raise(m, c.err), None)
                      ELSE ReadRef(m, c.idx)
                    : c \in {GetClassByName(m, defn.name)} })
        ELSE IF kind = PEnum /\ defn.d = "NameDef"
        THEN The({
                 Ret(Took(m, r), EnumStr(defn.name, r.val))
               : r \in {VarIntDeserialise(m.f, m.pos)} })
        ELSE IF kind = PNull /\ defn.d = "TypeDef"
        THEN The({
                 IF r.bytes = <<>>
                 THEN Ret([m EXCEPT !.pos = r.pos, !.err = "IndexError"], None)
                 ELSE IF r.bytes[1] # 0 THEN ReadValue([m EXCEPT !.pos = r.pos], defn.type)
                 ELSE Ret([m EXCEPT !.pos = r.pos], None)
               : r \in {Read(m.f, m.pos, 1)} })
        ELSE IF kind = PAlias /\ defn.d = "TypeDef"
        THEN ReadValue(m, defn.type)
        ELSE IF kind = PObj /\ defn.d = "ObjDef"
        THEN The({
                 IF b.err # OK \/ b.val = 0 THEN Ret(Took(m, b), None)
                 ELSE ReadObjFields(Took(m, b), defn.fields, 1, b.val - 1, 0, <<>>)
               : b \in {VarIntDeserialise(m.f, m.pos)} })
        ELSE Ret(Unsupported(m), None)

(***************************************************************************)
(* HXSFile.deserialise                                                     *)
(***************************************************************************)
\* The class table loop: name, ClassDef, ... up to a null name.
RECURSIVE ReadClassDefs(_)
ReadClassDefs(m) ==
    The({
        IF n.err # OK \/ n.val = None THEN Took(m, n)
        ELSE The({
                 IF c.err # OK THEN Took(m, c)
                 ELSE ReadClassDefs([Took(m, c) EXCEPT !.classdefs = Append(@, c.val)])
               : c \in {ClassDefDeserialise(m.f, n.pos, n.val)} })
      : n \in {StringDeserialise(m.f, m.pos)} })

\* The schema loop: while f.tell() < schemas_end_pos.
RECURSIVE ReadSchemas(_, _)
ReadSchemas(m, end) ==
    IF m.pos < end
    THEN The({
             IF sc.err # OK THEN Took(m, sc)
             ELSE ReadSchemas([Took(m, sc) EXCEPT !.schemas = Append(@, sc.val)], end)
           : sc \in {SchemaDeserialise(m.f, m.pos)} })
    ELSE m

\* A linker that pairs schemas with class definitions whatever the lengths.
LinkAnyLength(m) ==
    [m EXCEPT !.schemas = [i \in 1..Len(m.schemas) |-> [m.schemas[i] EXCEPT !.classdef = i]]]

\* HXSFile._link_and_resolve_references: schema.classdef is set when the two
\* lists are equally long.  (The _resolved back-references it also sets are
\* read by __repr__ alone and are left out.)
LinkAndResolveReferences(m) ==
    IF Len(m.classdefs) = Len(m.schemas)
    THEN [m EXCEPT !.schemas = [i \in 1..Len(m.schemas) |->
                                   [m.schemas[i] EXCEPT !.classdef = i]]]
    ELSE m

\* self.magic.deserialise(f); assert self.magic.value == "HXS".  The asserts
\* are executed (the interpreter runs without -O).
ReadMagic(m) ==
    The({
        IF mg.err # OK THEN Took(m, mg)
        ELSE IF mg.val # Str(<<72, 88, 83>>)
        THEN Raise([Took(m, mg) EXCEPT !.magic = mg.val], "AssertionError")
        ELSE [Took(m, mg) EXCEPT !.magic = mg.val]
      : mg \in {StringDeserialise(m.f, m.pos)} })

\* ReadVersion without the assert.
ReadVersionUnchecked(m) ==
    IF m.err # OK THEN m
    ELSE The({ [Took(m, v) EXCEPT !.version = v.val[1]]
             : v \in {SerialisableIntDeserialise(m.f, m.pos, 1)} })

\* self.version.deserialise(f, length=1); assert self.version.value == 1
ReadVersion(m) ==
    IF m.err # OK THEN m
    ELSE The({
             IF v.val[1] # 1
             THEN Raise([Took(m, v) EXCEPT !.version = v.val[1]], "AssertionError")
             ELSE [Took(m, v) EXCEPT !.version = v.val[1]]
           : v \in {SerialisableIntDeserialise(m.f, m.pos, 1)} })

\* The class table.
ReadClassTable(m) == IF m.err # OK THEN m ELSE ReadClassDefs(m)

\* self.schema_size.deserialise(f) and the schema block of that many bytes.
ReadSchemaBlock(m) ==
    IF m.err # OK THEN m
    ELSE The({
             IF sz.err # OK THEN Took(m, sz)
             ELSE IF sz.val > 0
             THEN ReadSchemas([Took(m, sz) EXCEPT !.schema_size = sz.val],
                              sz.pos + sz.val)
             ELSE [Took(m, sz) EXCEPT !.schema_size = sz.val]
           : sz \in {VarIntDeserialise(m.f, m.pos)} })

\* self._link_and_resolve_references(); self.obj = self._read_root_object(f)
ReadRoot(m) ==
    IF m.err # OK THEN m
    ELSE The({
             IF r.m.err # OK THEN r.m ELSE [r.m EXCEPT !.obj = r.val]
           : r \in {ReadRootObject(LinkAndResolveReferences(m))} })

\* HXSFile.deserialise(stream), the stream's cursor at 0.
Deserialise(m0, stream) ==
    ReadRoot(ReadSchemaBlock(ReadClassTable(ReadVersion(ReadMagic(
        [m0 EXCEPT !.f = stream, !.pos = 0, !.err = OK, !.log = <<>>])))))

(***************************************************************************)
(* Encoding values and object references                                   *)
(***************************************************************************)
\* self.buffer.write(bytes)
Emit(m, bytes) == [m EXCEPT !.buffer = @ \o bytes]

\* bool(x)
Truthy(x) ==
    CASE x.t = "none" -> FALSE
      [] x.t = "bool" -> x.v
      [] x.t = "int" -> x.v # 0
      [] x.t = "long" -> \E i \in 1..8 : x.v[i] # 0
      [] x.t = "float" -> ~FloatIsZero(x.v)
      [] x.t \in {"str", "list", "dict"} -> Len(x.v) > 0
      [] OTHER -> TRUE

\* A 64-bit int that is in the signed 32-bit range.
LongFitsI32(b) ==
    \/ b[4] < 128 /\ \A i \in 5..8 : b[i] = 0
    \/ b[4] >= 128 /\ \A i \in 5..8 : b[i] = 255

\* 0 <= x < 128 for a float x: not negative (or a zero) and below 2^7.
FloatInByteRange(b) ==
    \/ FloatIsZero(b)
    \/ b[8] < 128 /\ (b[8] % 128) * 16 + (b[7] \div 16) < 1030

\* VarInt(x).serialise() written to the buffer, for any value x: the range
\* test raises TypeError for what is no number, bytes([x]) for a float in
\* range, and struct.pack("<i", x) raises struct.error for a float or for an
\* int beyond 32 bits.
WriteVarInt(m, x) ==
    CASE x.t = "int" -> Emit(m, VarIntSerialise(x.v))
      [] x.t = "bool" -> Emit(m, VarIntSerialise(IF x.v THEN 1 ELSE 0))
      [] x.t = "long" ->
            IF LongFitsI32(x.v) THEN Emit(m, VarIntSerialise(UnpackI32(SubSeq(x.v, 1, 4))))
            ELSE Raise(m, "struct.error")
      [] x.t = "float" ->
            IF FloatInByteRange(x.v) THEN Raise(m, "TypeError")
            ELSE Raise(m, "struct.error")
      [] OTHER -> Raise(m, "TypeError")

\* String(x).serialise() written to the buffer, for any value x.
WriteString(m, x) ==
    IF x.t \in {"none", "str"}
    THEN The({
             IF r.err # OK THEN Raise(m, r.err) ELSE Emit(m, r.bytes)
           : r \in {StringSerialise(x)} })
    ELSE Raise(m, "AttributeError")

\* Bit i (0..51) of the mantissa of float(a), for 0 < a < 2^31 with top bit e.
MantissaBit(a, e, i) ==
    IF i >= 52 - e THEN ((a - 2 ^ e) \div (2 ^ (i - 52 + e))) % 2 ELSE 0

\* Eight bits of that mantissa from bit lo on, as a byte.
MantissaByte(a, e, lo) ==
    MantissaBit(a, e, lo) + 2 * MantissaBit(a, e, lo + 1)
    + 4 * MantissaBit(a, e, lo + 2) + 8 * MantissaBit(a, e, lo + 3)
    + 16 * MantissaBit(a, e, lo + 4) + 32 * MantissaBit(a, e, lo + 5)
    + 64 * MantissaBit(a, e, lo + 6) + 128 * MantissaBit(a, e, lo + 7)

\* struct.pack("<d", n) for a 32-bit int n: the IEEE 754 double equal to n.
IntToDouble(n) ==
    IF n = 0 THEN <<0, 0, 0, 0, 0, 0, 0, 0>>
    ELSE IF n = -2147483647 - 1 THEN <<0, 0, 0, 0, 0, 0, 224, 193>>
    ELSE LET a    == IF n < 0 THEN -n ELSE n
             e    == CHOOSE k \in 0..30 : 2 ^ k <= a /\ (k = 30 \/ a < 2 ^ (k + 1))
             bexp == 1023 + e
             sign == IF n < 0 THEN 128 ELSE 0
         IN  << MantissaByte(a, e, 0), MantissaByte(a, e, 8), MantissaByte(a, e, 16),
                MantissaByte(a, e, 24), MantissaByte(a, e, 32), MantissaByte(a, e, 40),
                (bexp % 16) * 16 + MantissaBit(a, e, 48) + 2 * MantissaBit(a, e, 49)
                    + 4 * MantissaBit(a, e, 50) + 8 * MantissaBit(a, e, 51),
                sign + (bexp \div 16) >>

\* struct.pack("<d", x) written to the buffer, for any value x.
WriteDouble(m, x) ==
    CASE x.t = "float" -> Emit(m, x.v)
      [] x.t = "int" -> Emit(m, IntToDouble(x.v))
      [] x.t = "bool" -> Emit(m, IntToDouble(IF x.v THEN 1 ELSE 0))
      [] x.t = "long" ->
            IF LongFitsI32(x.v) THEN Emit(m, IntToDouble(UnpackI32(SubSeq(x.v, 1, 4))))
            ELSE Raise(m, "unmodelled: a double from an int beyond 32 bits")
      [] OTHER -> Raise(m, "struct.error")

\* struct.pack("<q", x) written to the buffer, for any value x.
WriteInt64(m, x) ==
    LET ext(n) == PackI32(n) \o (IF n < 0 THEN <<255, 255, 255, 255>> ELSE <<0, 0, 0, 0>>)
    IN  CASE x.t = "long" -> Emit(m, x.v)
          [] x.t = "int" -> Emit(m, ext(x.v))
          [] x.t = "bool" -> Emit(m, ext(IF x.v THEN 1 ELSE 0))
          [] OTHER -> Raise(m, "struct.error")

\* Whether len(x) is defined.
HasLen(x) == x.t \in {"list", "str", "dict"}

\* What "for item in x" yields: the items of a list, the characters of a str,
\* the keys of a dict.
IterItems(x) ==
    CASE x.t = "list" -> x.v
      [] x.t = "str" -> [i \in 1..Len(x.v) |-> Str(<<x.v[i]>>)]
      [] x.t = "dict" -> [i \in 1..Len(x.v) |-> x.v[i][1]]

\* Whether c is an ASCII digit.
IsDigit(c) == 48 <= c /\ c <= 57

\* The index of the last "(" in cs, 0 when there is none.
LastParen(cs) ==
    IF \E i \in 1..Len(cs) : cs[i] = 40
    THEN CHOOSE i \in 1..Len(cs) : cs[i] = 40 /\ \A j \in (i + 1)..Len(cs) : cs[j] # 40
    ELSE 0

\* The value of the decimal digits ds (at most nine of them).
RECURSIVE DigitsValue(_)
DigitsValue(ds) ==
    IF Len(ds) = 0 THEN 0
    ELSE 10 * DigitsValue(SubSeq(ds, 1, Len(ds) - 1)) + (ds[Len(ds)] - 48)

\* int(num_str) for value.split('(')[-1][:-1].  ok is FALSE where int raises
\* ValueError; big is TRUE where the int is beyond 32 bits; known is FALSE
\* for what int may accept besides a sign and one to ten ASCII digits (a
\* longer numeral, blanks, underscores, digits beyond ASCII).
EnumIndex(cs) ==
    The({
        LET neg  == Len(body) > 0 /\ body[1] = 45
            pls  == Len(body) > 0 /\ body[1] = 43
        IN  The({
                LET num  == Len(ds) >= 1 /\ \A i \in 1..Len(ds) : IsDigit(ds[i])
                    hi   == DigitsValue(SubSeq(ds, 1, 9))
                    last == ds[10] - 48
                    big  == /\ num /\ Len(ds) = 10
                            /\ \/ hi > 214748364
                               \/ hi = 214748364 /\ last > (IF neg THEN 8 ELSE 7)
                IN  [ok    |-> num,
                     big   |-> big,
                     val   |-> IF ~num \/ Len(ds) > 10 \/ big THEN 0
                               ELSE IF Len(ds) <= 9
                               THEN (IF neg THEN -DigitsValue(ds) ELSE DigitsValue(ds))
                               ELSE IF neg THEN (-10 * hi) - last ELSE 10 * hi + last,
                     known |-> /\ num => Len(ds) <= 10
                               /\ \A i \in 1..Len(body) :
                                     body[i] > 32 /\ body[i] < 127 /\ body[i] # 95]
              : ds \in {IF neg \/ pls THEN SubSeq(body, 2, Len(body)) ELSE body} })
      : body \in {SubSeq(cs, LastParen(cs) + 1, Len(cs) - 1)} })

RECURSIVE WriteValue(_, _, _)
RECURSIVE WriteItems(_, _, _, _)
RECURSIVE WritePairs(_, _, _, _, _)
RECURSIVE WriteObjFields(_, _, _, _, _, _)
RECURSIVE ObjSerialiseFrom(_, _, _)
RECURSIVE WriteRef(_, _)

\* Obj.serialise, from the i-th (name, type) pair of its schema on: zip stops
\* at the shorter list.
ObjSerialiseFrom(m, id, i) ==
    LET sc == m.schemas[m.heap[id].schema]
    IN  IF i > Len(sc.field_names) \/ i > Len(sc.field_types)
        THEN Logged(m, Event("encoded", id, 0, Len(m.buffer), Len(m.buffer)))
        ELSE IF sc.field_names[i] = None THEN Raise(m, "AssertionError")
        ELSE The({
                 IF w.err # OK THEN w ELSE ObjSerialiseFrom(w, id, i + 1)
               : w \in {WriteValue(m, sc.field_types[i],
                                   DictGet(m.heap[id].fields, sc.field_names[i]))} })

\* Obj.serialise
ObjSerialise(m, id) ==
    ObjSerialiseFrom(Logged(m, Event("wfields", id, 0, Len(m.buffer), Len(m.buffer))),
                     id, 1)

\* Allocate that leaves the counter where it is.
AllocateNoAdvance(m, x) ==
    LET uid == m.next_uid
        m1  == [m EXCEPT !.written_objects = (x :> uid) @@ @]
        m2  == Emit(m1, VarIntSerialise(uid))
    IN  Logged(m2, Event("wnew", IF x.t = "obj" THEN x.v ELSE 0, uid,
                         Len(m.buffer), Len(m2.buffer)))

\* The new UID of _write_ref: allocated, recorded, written.
Allocate(m, x) ==
    LET uid == m.next_uid
        m1  == [m EXCEPT !.next_uid = @ + 1, !.written_objects = (x :> uid) @@ @]
        m2  == Emit(m1, VarIntSerialise(uid))
    IN  Logged(m2, Event("wnew", IF x.t = "obj" THEN x.v ELSE 0, uid,
                         Len(m.buffer), Len(m2.buffer)))

\* Whether the fields of Obj x are being written: begun and not finished.
IsOpen(m, x) ==
    /\ x.t = "obj"
    /\ Cardinality({i \in 1..Len(m.log) : m.log[i].e = "wfields" /\ m.log[i].obj = x.v})
         > Cardinality({i \in 1..Len(m.log) : m.log[i].e = "encoded" /\ m.log[i].obj = x.v})

\* HXSFile._write_ref that takes an Obj as written only while its fields are
\* being written: a guard against cycles that does not share what is finished.
WriteRefOpenOnly(m, x) ==
    IF x = None
    THEN Logged(Emit(m, VarIntSerialise(0)),
                Event("wnull", 0, 0, Len(m.buffer), Len(m.buffer) + 1))
    ELSE IF x \in DOMAIN m.written_objects /\ IsOpen(m, x)
    THEN LET m1 == Emit(m, VarIntSerialise(m.written_objects[x]))
         IN  Logged(m1, Event("wseen", x.v, m.written_objects[x],
                              Len(m.buffer), Len(m1.buffer)))
    ELSE IF x.t = "obj" THEN ObjSerialise(Allocate(m, x), x.v)
    ELSE Raise(Allocate(m, x), "AttributeError")

\* HXSFile._write_ref, for any value x: the table is keyed by the object's
\* identity, and what is no Obj has no serialise.
WriteRef(m, x) ==
    IF x = None
    THEN Logged(Emit(m, VarIntSerialise(0)),
                Event("wnull", 0, 0, Len(m.buffer), Len(m.buffer) + 1))
    ELSE IF x \in DOMAIN m.written_objects
    THEN LET m1 == Emit(m, VarIntSerialise(m.written_objects[x]))
         IN  Logged(m1, Event("wseen", x.v, m.written_objects[x],
                              Len(m.buffer), Len(m1.buffer)))
    ELSE IF x.t = "obj" THEN ObjSerialise(Allocate(m, x), x.v)
    ELSE Raise(Allocate(m, x), "AttributeError")

\* for item in value: self._write_value(defn.type, item), from the i-th item on.
WriteItems(m, pt, items, i) ==
    IF i > Len(items) THEN m
    ELSE The({
             IF w.err # OK THEN w ELSE WriteItems(w, pt, items, i + 1)
           : w \in {WriteValue(m, pt, items[i])} })

\* for k, v in value.items(): ..., from the i-th item on.
WritePairs(m, kt, vt, items, i) ==
    IF i > Len(items) THEN m
    ELSE The({
             IF k.err # OK THEN k
             ELSE The({
                      IF w.err # OK THEN w ELSE WritePairs(w, kt, vt, items, i + 1)
                    : w \in {WriteValue(k, vt, items[i][2])} })
           : k \in {WriteValue(m, kt, items[i][1])} })

\* The items value.get looks a key up in: those of a dict.  (What is no dict
\* gets here only for a PObj without fields, where nothing is looked up.)
ItemsOf(x) == IF x.t = "dict" THEN x.v ELSE <<>>

\* The first loop of the PObj branch: the presence bits of the nullable
\* fields from the i-th declared field on, added to bits.
RECURSIVE PresenceBits(_, _, _, _, _)
PresenceBits(fields, d, i, bit_idx, bits) ==
    IF i > Len(fields) THEN bits
    ELSE IF IsFieldNullable(fields[i].type)
    THEN PresenceBits(fields, d, i + 1, bit_idx + 1,
                      IF DictGet(d, FieldKey(fields[i], bit_idx)) # None
                      THEN bits + 2 ^ bit_idx ELSE bits)
    ELSE PresenceBits(fields, d, i + 1, bit_idx, bits)

\* The second loop of the PObj branch, from the i-th declared field on.  The
\* log takes an event "wfield" per field: whether it was written, and where.
WriteObjFields(m, fields, d, i, bits, bit_idx) ==
    IF i > Len(fields) THEN m
    ELSE LET fd       == fields[i]
             x        == DictGet(d, FieldKey(fd, bit_idx))
             nullable == IsFieldNullable(fd.type)
             present  == IF nullable THEN BitSet(bits, bit_idx) ELSE TRUE
             next_idx == IF nullable THEN bit_idx + 1 ELSE bit_idx
         IN  IF present
             THEN The({
                      IF w.err # OK THEN w
                      ELSE WriteObjFields(
                               Logged(w, Event("wfield", i, 1, Len(m.buffer),
                                               Len(w.buffer))),
                               fields, d, i + 1, bits, next_idx)
                    : w \in {IF fd.type # Absent THEN WriteValue(m, fd.type, x)
                             ELSE WriteString(m, x)} })
             ELSE WriteObjFields(
                      Logged(m, Event("wfield", i, 0, Len(m.buffer), Len(m.buffer))),
                      fields, d, i + 1, bits, next_idx)

\* HXSFile._write_value: the instance after the call.
WriteValue(m, pt, x) ==
    IF pt.kind = NoKind THEN m
    ELSE
    LET kind == pt.kind
        defn == pt.defn
    IN  IF kind \in {PInt, PFlags} THEN WriteVarInt(m, x)
        ELSE IF kind = PFloat THEN WriteDouble(m, x)
        ELSE IF kind = PBool THEN Emit(m, IF Truthy(x) THEN <<1>> ELSE <<0>>)
        ELSE IF kind = PInt64 THEN WriteInt64(m, x)
        ELSE IF kind \in {PString, PBytes} THEN WriteString(m, x)
        ELSE IF kind = PArray /\ defn.d = "TypeDef"
        THEN IF x = None THEN Emit(m, VarIntSerialise(0))
             ELSE IF ~HasLen(x) THEN Raise(m, "TypeError")
             ELSE WriteItems(Emit(m, VarIntSerialise(Len(x.v) + 1)),
                             defn.type, IterItems(x), 1)
        ELSE IF kind = PMap /\ defn.d = "MapDef"
        THEN IF x = None THEN Emit(m, VarIntSerialise(0))
             ELSE IF ~HasLen(x) THEN Raise(m, "TypeError")
             ELSE IF x.t # "dict"
             THEN Raise(Emit(m, VarIntSerialise(Len(x.v) + 1)), "AttributeError")
             ELSE WritePairs(Emit(m, VarIntSerialise(Len(x.v) + 1)),
                             defn.key_type, defn.value_type, x.v, 1)
        ELSE IF kind = PSerializable /\ defn.d = "NameDef" THEN WriteRef(m, x)
        ELSE IF kind = PObj /\ defn.d = "ObjDef"
        THEN IF x = None THEN Emit(m, VarIntSerialise(0))
             ELSE IF x.t # "dict" /\ Len(defn.fields) > 0
             THEN \* value.get fails in the first loop when a field is
                  \* nullable, else in the second, the mask 0 being written
                  IF \E i \in 1..Len(defn.fields) : IsFieldNullable(defn.fields[i].type)
                  THEN Raise(m, "AttributeError")
                  ELSE Raise(Emit(m, VarIntSerialise(1)), "AttributeError")
             ELSE The({
                      LET m1 == Emit(m, VarIntSerialise(bits + 1))
                      IN  WriteObjFields(
                              Logged(m1, Event("wmask", 0, bits, Len(m.buffer),
                                               Len(m1.buffer))),
                              defn.fields, d, 1, bits, 0)
                    : bits \in {PresenceBits(defn.fields, ItemsOf(x), 1, 0, 0)},
                      d \in {ItemsOf(x)} })
        ELSE IF kind = PEnum
        THEN IF x.t = "str" /\ Len(x.v) > 0 /\ x.v[Len(x.v)] = 41
             THEN The({
                      IF ~n.known THEN Raise(m, "unmodelled: int of this numeral")
                      ELSE IF n.big THEN Raise(m, "struct.error")
                      ELSE IF n.ok THEN Emit(m, VarIntSerialise(n.val))
                      ELSE Raise(m, "ValueError")
                    : n \in {EnumIndex(x.v)} })
             ELSE Emit(m, VarIntSerialise(0))
        ELSE IF kind = PNull /\ defn.d = "TypeDef"
        THEN IF x = None THEN Emit(m, <<0>>)
             ELSE WriteValue(Emit(m, <<1>>), defn.type, x)
        ELSE Unsupported(m)

(***************************************************************************)
(* HXSFile.serialise                                                       *)
(***************************************************************************)
\* for cdef in self.classdefs: final_buffer.write(cdef.serialise())
ClassDefsBytes(m) ==
    Join([i \in 1..Len(m.classdefs) |-> ClassDefSerialise(m.classdefs[i]).bytes])

\* b"".join(s.serialise() for s in self.schemas)
SchemasBytes(m) == Join([i \in 1..Len(m.schemas) |-> SchemaSerialise(m.schemas[i])])

\* HXSFile.serialise that keeps the table and the counter of the pass before.
SerialiseKeepTable(m0) ==
    LET m1 == [m0 EXCEPT !.buffer = <<>>, !.err = OK, !.log = <<>>]
    IN  The({
            IF m2.err # OK THEN Ret(m2, <<>>)
            ELSE The({
                     Ret([m2 EXCEPT !.schema_size = Len(schema_bytes)],
                         StringSerialise(m2.magic).bytes
                         \o <<m2.version>>
                         \o ClassDefsBytes(m2)
                         \o StringSerialise(None).bytes
                         \o VarIntSerialise(Len(schema_bytes))
                         \o schema_bytes
                         \o m2.buffer)
                   : schema_bytes \in {SchemasBytes(m2)} })
          : m2 \in {IF m1.obj # None THEN WriteRef(m1, m1.obj) ELSE m1} })

\* HXSFile.serialise: the instance after the call and the bytes returned
\* (none when the call raises).  An Obj is truthy, None is not.
Serialise(m0) ==
    LET m1 == [m0 EXCEPT !.buffer = <<>>, !.written_objects = <<>>, !.next_uid = 1,
                         !.err = OK, !.log = <<>>]
    IN  The({
            IF m2.err # OK THEN Ret(m2, <<>>)
            ELSE The({
                     Ret([m2 EXCEPT !.schema_size = Len(schema_bytes)],
                         StringSerialise(m2.magic).bytes
                         \o <<m2.version>>
                         \o ClassDefsBytes(m2)
                         \o StringSerialise(None).bytes
                         \o VarIntSerialise(Len(schema_bytes))
                         \o schema_bytes
                         \o m2.buffer)
                   : schema_bytes \in {SchemasBytes(m2)} })
          : m2 \in {IF m1.obj # None THEN WriteRef(m1, m1.obj) ELSE m1} })

(***************************************************************************)
(* The primitive codecs driven on their own: a value is written and the    *)
(* bytes are read back, or a stream is read.                               *)
(***************************************************************************)
\* The sequences over S of length at most n.
SeqsUpTo(S, n) == UNION {[1..k -> S] : k \in 0..n}

\* Bytes that may follow an encoding in the stream.
Tails == {<<>>, <<7>>}

\* Signed 32-bit values around every boundary of the encoding.
VarIntValues ==
    {-2147483647 - 1, -2147483647, -16777216, -65536, -32768, -256, -129, -128,
     -1, 0, 1, 2, 126, 127, 128, 129, 255, 256, 32767, 65535, 65536, 16777215,
     16777216, 2147483647}

PayloadBytes == {0, 1, 127, 128, 255}

\* Every lead byte, and the long form over PayloadBytes, whole or cut short.
VarIntStreams ==
    {<<>>}
    \cup {<<b>> \o t : b \in (0..255) \ {128}, t \in Tails}
    \cup {<<128>> \o p \o t : p \in [1..4 -> PayloadBytes], t \in Tails}
    \cup {<<128>> \o p : p \in SeqsUpTo({0, 255}, 3)}

InitVarInt ==
    /\ pos = 0 /\ err = OK /\ hist = <<>>
    /\ hxs = NewHXSFile /\ out = <<>> /\ typ = NullPropType
    /\ \/ pc = "new" /\ val \in VarIntValues /\ f = <<>>
       \/ pc = "stream" /\ val = 0 /\ f \in VarIntStreams

\* VarInt(val).serialise()
VarIntWrite ==
    /\ pc = "new"
    /\ f' = VarIntSerialise(val)
    /\ pos' = 0
    /\ pc' = "written"
    /\ hist' = Append(hist, [op |-> "serialise", arg |-> val, ret |-> f'])
    /\ UNCHANGED <<val, err, hxs, out, typ>>

\* VarInt().deserialise(f)
VarIntRead ==
    /\ pc \in {"written", "stream"}
    /\ LET r == VarIntDeserialise(f, pos)
       IN  /\ val' = r.val /\ pos' = r.pos /\ err' = r.err
           /\ hist' = Append(hist, [op |-> "deserialise", arg |-> f, ret |-> r])
    /\ pc' = "read"
    /\ UNCHANGED <<f, hxs, out, typ>>

NextVarInt == VarIntWrite \/ VarIntRead

SpecVarInt == InitVarInt /\ [][NextVarInt]_vars

MaxStrLen == 2

MaxStreamLen == 3

\* Characters of one, two, three and four UTF-8 bytes.
StrChars == {65, 233, 8364, 128512}

\* A string whose prefix takes the long VarInt form.
LongStr == [i \in 1..127 |-> 97]

StrValues == {None, Str(LongStr)} \cup {Str(x) : x \in SeqsUpTo(StrChars, MaxStrLen)}

StrStreamBytes == {0, 1, 2, 3, 65, 128, 169, 195}

StrStreams == SeqsUpTo(StrStreamBytes, MaxStreamLen)

InitString ==
    /\ pos = 0 /\ err = OK /\ hist = <<>>
    /\ hxs = NewHXSFile /\ out = <<>> /\ typ = NullPropType
    /\ \/ pc = "new" /\ val \in StrValues /\ f = <<>>
       \/ pc = "stream" /\ val = None /\ f \in StrStreams

\* String(val).serialise()
StringWrite ==
    /\ pc = "new"
    /\ LET r == StringSerialise(val)
       IN  /\ f' = r.bytes /\ err' = r.err
           /\ hist' = Append(hist, [op |-> "serialise", arg |-> val, ret |-> r])
    /\ pos' = 0
    /\ pc' = "written"
    /\ UNCHANGED <<val, hxs, out, typ>>

\* String().deserialise(f)
StringRead ==
    /\ pc \in {"written", "stream"}
    /\ err = OK
    /\ LET r == StringDeserialise(f, pos)
       IN  /\ val' = r.val /\ pos' = r.pos /\ err' = r.err
           /\ hist' = Append(hist, [op |-> "deserialise", arg |-> f, ret |-> r])
    /\ pc' = "read"
    /\ UNCHANGED <<f, hxs, out, typ>>

NextString == StringWrite \/ StringRead

SpecString == InitString /\ [][NextString]_vars

(***************************************************************************)
(* Whole files.  A file of the catalogue is a header, a class table and a  *)
(* schema block written out byte by byte, followed by every short tail of  *)
(* object data; some longer files are listed one by one.                   *)
(***************************************************************************)
\* Magic "HXS" and version 1.
Header == <<4, 72, 88, 83, 1>>

\* The class "A" with CLID 1 and the CRC32 bytes crc; the class "B", CLID 2.
ClassA(crc) == <<2, 65, 0, 1>> \o crc

ClassB == <<2, 66, 0, 2, 9, 9, 9, 9>>

Crc == <<1, 2, 3, 4>>

\* Encoded field types, by tag.
TNone == <<0>>
TInt == <<1>>
TFloat == <<2>>
TBool == <<3>>
TString == <<4>>
TBytes == <<5>>
TRefA == <<6, 2, 65>>
TRefB == <<6, 2, 66>>
TEnum == <<7, 2, 69>>
TMap == <<8, 1, 4>>
TArray == <<9, 1>>
TArrayRef == <<9, 6, 2, 65>>
TAlias == <<11, 1>>
TVector == <<12, 1>>
TNull == <<13, 1>>
TUnknown == <<14>>
TDynamic == <<15>>
TInt64 == <<16>>
TFlags == <<17, 1>>
TCustom == <<18>>
TSerInterface == <<19, 2, 65>>
TStruct == <<20, 2, 83, 0>>
TAliasCDB == <<21, 1>>
TNoSave == <<22, 1>>

\* PObj types: two fields without a name (a Bool, a String); two fields with
\* a name ("x" a String, "y" an Int); one field "x" without a type; one
\* field whose header is 0; three fields without a name (an Int, a String,
\* a String).
TObjUnnamed == <<10, 3, 3, 3, 0, 3, 4, 0>>
TObjNamed == <<10, 3, 4, 2, 120, 4, 0, 4, 2, 121, 1, 0>>
TObjUntyped == <<10, 2, 2, 2, 120, 0>>
TObjBare == <<10, 2, 0, 0>>
TObjThree == <<10, 4, 3, 1, 0, 3, 4, 0, 3, 4, 0>>

\* A schema record with UID and CLID u: the fields "a", "b", ... of the
\* encoded types ts.
SchemaRecord(u, ts) ==
    <<u, u, Len(ts) + 1>> \o Join([i \in 1..Len(ts) |-> <<2, 96 + i>>])
    \o <<Len(ts) + 1>> \o Join(ts)

\* The file up to the root reference: class table, terminator, schema block.
FileOf(classes, records) ==
    Header \o classes \o <<0, Len(Join(records))>> \o Join(records)

\* The field lists of the one-class files.
FieldLists ==
    {<<>>, <<TInt, TString>>, <<TRefA, TRefA>>, <<TRefA, TInt>>}
    \cup {<<t>> : t \in {TNone, TInt, TFloat, TBool, TString, TBytes, TRefA, TRefB, TEnum,
                         TMap, TArray, TArrayRef, TAlias, TVector, TNull, TUnknown,
                         TDynamic, TInt64, TFlags, TCustom, TSerInterface, TStruct,
                         TAliasCDB, TNoSave, TObjUnnamed, TObjNamed, TObjUntyped,
                         TObjBare, TObjThree}}

\* Files with two classes, with lists of unequal length, with a null field
\* name, without schema or without class, with a schema size in the long
\* form or beyond the block, and headers that are cut short or wrong.
SpecialPrefixes ==
    {FileOf(ClassA(Crc) \o ClassB, <<SchemaRecord(1, <<TRefB>>), SchemaRecord(2, <<TRefA>>)>>),
     FileOf(ClassA(Crc) \o ClassB, <<SchemaRecord(1, <<TRefB>>)>>),
     FileOf(ClassA(Crc), <<SchemaRecord(1, <<>>), SchemaRecord(2, <<TInt>>)>>),
     FileOf(ClassA(Crc), << <<1, 1, 3, 2, 97, 2, 98, 2, 1>> >>),
     FileOf(ClassA(Crc), << <<1, 1, 2, 2, 97, 3, 1, 4>> >>),
     FileOf(ClassA(Crc), << <<1, 1, 2, 0, 2, 1>> >>),
     FileOf(ClassA(Crc), << <<1, 1, 0, 0>> >>),
     FileOf(ClassA(Crc), <<>>),
     FileOf(<<>>, <<SchemaRecord(1, <<TInt>>)>>),
     Header \o ClassA(Crc) \o <<0, 128, 4, 0, 0, 0, 1, 1, 1, 1>>,
     Header \o ClassA(Crc) \o <<0, 3, 1, 1, 1, 1>>,
     Header \o ClassA(Crc) \o <<0, 5, 1, 1, 1, 1>>,
     Header \o ClassA(Crc),
     Header \o <<2, 65, 0>>,
     Header,
     <<4, 72, 88, 83, 2, 0, 0>>,
     <<4, 72, 88, 84, 1, 0, 0>>,
     <<4, 72, 88>>,
     <<0>>,
     <<>>}

Prefixes == {FileOf(ClassA(Crc), <<SchemaRecord(1, ts)>>) : ts \in FieldLists}
            \cup SpecialPrefixes

\* The smallest file, for several CRC32s.
MinimalFiles ==
    {FileOf(ClassA(crc), <<SchemaRecord(1, <<>>)>>) \o <<1>> :
        crc \in {<<0, 0, 0, 0>>, Crc, <<255, 255, 255, 255>>, <<120, 86, 52, 18>>}}

\* Longer object data: an object shared by two fields, an object that refers
\* to itself and is shared, a chain that closes on the root, UIDs in the long
\* form, a double, an Int64, strings, collections.
LongFiles ==
    {FileOf(ClassA(Crc), <<SchemaRecord(1, <<TRefA, TRefA>>)>>) \o t :
        t \in {<<1, 2, 0, 0, 2>>, <<1, 2, 2, 2, 0>>, <<1, 2, 3, 1, 0, 0, 3>>,
               <<2, 1, 0, 0, 1>>, <<128, 44, 1, 0, 0, 0, 128, 44, 1, 0, 0>>}}
    \cup {FileOf(ClassA(Crc), <<SchemaRecord(1, <<TFloat>>)>>) \o <<1>> \o d :
            d \in {<<0, 0, 0, 0, 0, 0, 248, 63>>, <<0, 0, 0, 0, 0, 0, 248, 127>>,
                   <<0, 0, 0, 0, 0, 0, 0, 128>>}}
    \cup {FileOf(ClassA(Crc), <<SchemaRecord(1, <<TInt64>>)>>)
            \o <<1, 255, 255, 255, 255, 255, 255, 255, 127>>,
          FileOf(ClassA(Crc), <<SchemaRecord(1, <<TString>>)>>) \o <<1, 3, 195, 169>>,
          FileOf(ClassA(Crc), <<SchemaRecord(1, <<TString>>)>>) \o <<1, 3, 195, 40>>,
          FileOf(ClassA(Crc), <<SchemaRecord(1, <<TString>>)>>) \o <<1, 255>>,
          FileOf(ClassA(Crc), <<SchemaRecord(1, <<TInt>>)>>) \o <<1, 128, 5, 0, 0, 0>>,
          FileOf(ClassA(Crc), <<SchemaRecord(1, <<TInt>>)>>) \o <<1, 200>>,
          FileOf(ClassA(Crc), <<SchemaRecord(1, <<TMap>>)>>) \o <<1, 3, 1, 2, 97, 1, 0>>,
          FileOf(ClassA(Crc), <<SchemaRecord(1, <<TArrayRef>>)>>) \o <<1, 4, 1, 2, 0, 2>>,
          FileOf(ClassA(Crc), <<SchemaRecord(1, <<TObjNamed>>)>>) \o <<1, 2, 2, 97, 5>>,
          FileOf(ClassA(Crc), <<SchemaRecord(1, <<TObjUnnamed>>)>>) \o <<1, 2, 0, 2, 97>>,
          FileOf(ClassA(Crc), <<SchemaRecord(1, <<TObjThree>>)>>) \o <<1, 4, 5, 2, 98, 2, 99>>,
          FileOf(ClassA(Crc), <<SchemaRecord(1, <<TEnum>>)>>) \o <<1, 128, 255, 255, 255, 255>>}

\* The body of the smallest file behind a header whose magic string or
\* version byte is another.
BadHeaderFiles ==
    {h \o ClassA(Crc) \o <<0, 4, 1, 1, 1, 1, 1>> :
        h \in {<<4, 72, 88, 84, 1>>, <<4, 72, 88, 83, 2>>, <<4, 72, 88, 83, 0>>,
                <<3, 72, 88, 1>>, <<1, 1>>, <<0, 1>>}}

MaxTail == 2

MaxCalls == 3

TailBytes == {0, 1, 2}

Files ==
    {p \o t : p \in Prefixes, t \in SeqsUpTo(TailBytes, MaxTail)}
    \cup MinimalFiles \cup LongFiles \cup BadHeaderFiles

\* An instance that has decoded nothing yet.
IsFresh(m) == m.classdefs = <<>> /\ m.schemas = <<>> /\ m.objects = <<>>

InitFile ==
    /\ pc = "file" /\ f \in Files
    /\ pos = 0 /\ val = None /\ err = OK /\ hist = <<>>
    /\ hxs = NewHXSFile /\ out = <<>> /\ typ = NullPropType

\* hxs.deserialise(BytesIO(stream))
Decoding(stream) ==
    LET m == Deserialise(hxs, stream)
    IN  /\ hxs' = m /\ err' = m.err /\ pos' = m.pos
        /\ hist' = Append(hist, [op |-> "deserialise", arg |-> stream, err |-> m.err,
                                 ret |-> <<>>, pos |-> m.pos, fresh |-> IsFresh(hxs)])

\* The caller decodes the file.
DeserialiseInput ==
    /\ pc = "file" /\ Len(hist) < MaxCalls
    /\ Decoding(f)
    /\ UNCHANGED <<pc, f, val, out, typ>>

\* The caller decodes what serialise has just returned.
DeserialiseOutput ==
    /\ pc = "file" /\ Len(hist) < MaxCalls
    /\ hist # <<>> /\ hist[Len(hist)].op = "serialise" /\ err = OK
    /\ Decoding(out)
    /\ UNCHANGED <<pc, f, val, out, typ>>

\* hxs.serialise()
SerialiseCall ==
    /\ pc = "file" /\ Len(hist) < MaxCalls
    /\ LET r == Serialise(hxs)
       IN  /\ hxs' = r.m /\ err' = r.m.err
           /\ out' = IF r.m.err = OK THEN r.val ELSE out
           /\ hist' = Append(hist, [op |-> "serialise", arg |-> <<>>, err |-> r.m.err,
                                    ret |-> r.val, pos |-> pos, fresh |-> IsFresh(hxs)])
    /\ UNCHANGED <<pc, f, pos, val, typ>>

\* hxs = HXSFile()
Construct ==
    /\ pc = "file" /\ Len(hist) < MaxCalls
    /\ hist # <<>> /\ hist[Len(hist)].op # "construct"
    /\ hxs' = NewHXSFile /\ err' = OK
    /\ hist' = Append(hist, [op |-> "construct", arg |-> <<>>, err |-> OK,
                             ret |-> <<>>, pos |-> pos, fresh |-> IsFresh(hxs)])
    /\ UNCHANGED <<pc, f, pos, val, out, typ>>

Next == DeserialiseInput \/ DeserialiseOutput \/ SerialiseCall \/ Construct

Spec == InitFile /\ [][Next]_vars

(***************************************************************************)
(* The value codec driven on its own: a value is read from a stream as a   *)
(* type, or a value the caller holds is written as a type; the caller may  *)
(* set or clear one nullable field of a PObj value between two writes.     *)
(***************************************************************************)
\* A PObj type of four named fields: a String, an Int, an Array of Int, a
\* nullable Int.
TObjMixed ==
    <<10, 5, 4, 2, 120, 4, 0, 4, 2, 121, 1, 0, 4, 2, 122, 9, 1, 0, 4, 2, 119, 13, 1, 0>>

\* A PObj type of three named fields: "p" an Alias of Int, "q" an Alias of
\* String, "r" a Flags.
TObjAlias ==
    <<10, 4, 4, 2, 112, 11, 1, 0, 4, 2, 113, 11, 4, 0, 4, 2, 114, 17, 1, 0>>

ValueTypeBytes ==
    {TObjAlias, TNone, TInt, TFloat, TBool, TString, TEnum, TMap, TArray, TAlias, TVector, TNull,
     TUnknown, TDynamic, TInt64, TFlags, TCustom, TSerInterface, TStruct, TAliasCDB,
     TNoSave, TObjUnnamed, TObjNamed, TObjUntyped, TObjThree, TObjMixed}

\* The types, as PropType.deserialise builds them.
ValueTypes == {PropTypeDeserialise(b, 0).val : b \in ValueTypeBytes}

\* Values a caller may hand to the writer.
SampleValues ==
    {None, PyInt(5), PyInt(-1), PyInt(300), PyBool(TRUE), Str(<<>>), Str(<<97>>),
     Str(<<69, 40, 55, 41>>), PyList(<<PyInt(1), PyInt(2)>>), PyDict(<<>>),
     PyDict(<< <<PyInt(1), Str(<<97>>)>> >>),
     PyFloat(<<0, 0, 0, 0, 0, 0, 248, 63>>), PyLong(<<1, 0, 0, 0, 1, 0, 0, 0>>)}

MaxValueLen == 2

MaxValueCalls == 4

ValueBytes == {0, 1, 2, 3}

ValueStreams ==
    SeqsUpTo(ValueBytes, MaxValueLen)
    \cup {<<0, 0, 0, 0, 0, 0, 248, 63>>, <<1, 0, 0, 0, 0, 0, 0, 128, 9>>,
          <<4, 2, 97, 1, 3, 7>>, <<3, 5, 2, 97, 2, 98>>, <<15, 2, 97, 5, 3, 1, 2, 1, 9>>,
          <<1, 5, 3>>, <<2, 5, 2, 97, 3>>, <<6, 2, 97, 7, 1, 9>>,
          <<3, 1, 2, 97, 1, 2, 98>>, <<3, 1, 2, 97, 2, 2, 98>>}

InitValue ==
    /\ pc = "value" /\ typ \in ValueTypes
    /\ \/ val = None /\ f \in ValueStreams
       \/ val \in SampleValues /\ f = <<>>
    /\ pos = 0 /\ err = OK /\ hist = <<>>
    /\ hxs = NewHXSFile /\ out = <<>>

\* val = hxs._read_value(BytesIO(f), typ)
ReadValueCall ==
    /\ pc = "value" /\ Len(hist) < MaxValueCalls
    /\ LET r == ReadValue([hxs EXCEPT !.f = f, !.pos = 0, !.err = OK, !.log = <<>>], typ)
       IN  /\ hxs' = r.m /\ err' = r.m.err /\ pos' = r.m.pos
           /\ val' = IF r.m.err = OK THEN r.val ELSE val
           /\ hist' = Append(hist, [op |-> "read", arg |-> f, err |-> r.m.err,
                                    ret |-> r.val, pos |-> r.m.pos, log |-> r.m.log])
    /\ UNCHANGED <<pc, f, out, typ>>

\* hxs.buffer = BytesIO(); hxs._write_value(typ, val)
WriteValueCall ==
    /\ pc = "value" /\ Len(hist) < MaxValueCalls
    /\ LET w == WriteValue([hxs EXCEPT !.buffer = <<>>, !.err = OK, !.log = <<>>], typ, val)
       IN  /\ hxs' = w /\ err' = w.err /\ out' = w.buffer
           /\ hist' = Append(hist, [op |-> "write", arg |-> val, err |-> w.err,
                                    ret |-> w.buffer, pos |-> pos, log |-> w.log])
    /\ UNCHANGED <<pc, f, pos, val, typ>>

\* The index of the presence bit of the i-th declared field: the number of
\* nullable fields declared before it.
BitIndexOf(fields, i) ==
    Cardinality({j \in 1..(i - 1) : IsFieldNullable(fields[j].type)})

\* A value that is not null for a field of type pt.
SampleOf(pt) ==
    IF pt = Absent \/ pt.kind \in {NoKind, PString, PBytes} THEN Str(<<97>>)
    ELSE IF pt.kind = PArray THEN PyList(<<PyInt(7)>>)
    ELSE IF pt.kind = PMap THEN PyDict(<<>>)
    ELSE PyInt(7)

\* The caller sets the i-th declared field of the PObj value, a nullable
\* one, when it is null and clears it when it is not:
\* val[key] = None if val[key] is not None else sample
ToggleField(i) ==
    /\ pc = "value" /\ Len(hist) < MaxValueCalls
    /\ hist # <<>> /\ hist[Len(hist)].op = "write"
    /\ val.t = "dict"
    /\ IsFieldNullable(typ.defn.fields[i].type)
    /\ LET fd  == typ.defn.fields[i]
           key == FieldKey(fd, BitIndexOf(typ.defn.fields, i))
           new == IF DictGet(val.v, key) = None THEN SampleOf(fd.type) ELSE None
       IN  /\ val' = PyDict(DictSet(val.v, key, new))
           /\ hist' = Append(hist, [op |-> "toggle", arg |-> i, err |-> OK,
                                    ret |-> <<>>, pos |-> pos, log |-> <<>>])
    /\ UNCHANGED <<pc, f, pos, err, hxs, out, typ>>

ToggleAny == typ.kind = PObj /\ \E i \in 1..Len(typ.defn.fields) : ToggleField(i)

NextValue == ReadValueCall \/ WriteValueCall \/ ToggleAny

SpecValue == InitValue /\ [][NextValue]_vars

(***************************************************************************)
(* The linker run again: a new instance decodes a file, and the caller     *)
(* calls _link_and_resolve_references on it once more, and again           *)
(***************************************************************************)
MaxLinkCalls == 3

InitLink ==
    /\ pc = "link" /\ f \in Files
    /\ pos = 0 /\ val = None /\ err = OK /\ hist = <<>>
    /\ hxs = NewHXSFile /\ out = <<>> /\ typ = NullPropType

\* hxs.deserialise(BytesIO(f)) on the new instance
LinkDecode ==
    /\ pc = "link" /\ hist = <<>>
    /\ Decoding(f)
    /\ UNCHANGED <<pc, f, val, out, typ>>

\* hxs._link_and_resolve_references()
LinkCall ==
    /\ pc = "link" /\ hist # <<>> /\ Len(hist) < MaxLinkCalls
    /\ hxs' = LinkAndResolveReferences(hxs)
    /\ hist' = Append(hist, [op |-> "link", arg |-> <<>>, err |-> OK, ret |-> <<>>,
                             pos |-> pos, fresh |-> IsFresh(hxs)])
    /\ UNCHANGED <<pc, f, pos, val, err, out, typ>>

NextLink == LinkDecode \/ LinkCall

SpecLink == InitLink /\ [][NextLink]_vars

(***************************************************************************)
(* PropType on its own: a type is read from a stream and written again     *)
(***************************************************************************)
MaxTypeLen == 4

\* The no-type tag and the tag of Int, the flags of an ObjFieldDef, a field
\* count, a string prefix, the tags of Array and of Obj.
TypeBytes == {0, 1, 2, 3, 9, 10}

TypeStreams == SeqsUpTo(TypeBytes, MaxTypeLen) \cup ValueTypeBytes

InitPropType ==
    /\ pc = "stream" /\ f \in TypeStreams
    /\ pos = 0 /\ val = None /\ err = OK /\ hist = <<>>
    /\ hxs = NewHXSFile /\ out = <<>> /\ typ = NullPropType

\* typ = PropType().deserialise(BytesIO(f))
PropTypeRead ==
    /\ pc = "stream"
    /\ LET r == PropTypeDeserialise(f, 0)
       IN  /\ typ' = r.val /\ pos' = r.pos /\ err' = r.err
           /\ hist' = Append(hist, [op |-> "deserialise", arg |-> f, ret |-> r])
    /\ pc' = "read"
    /\ UNCHANGED <<f, val, hxs, out>>

\* out = typ.serialise(), for a type that was read without error
PropTypeWrite ==
    /\ pc = "read" /\ err = OK
    /\ out' = PropTypeSerialise(typ)
    /\ hist' = Append(hist, [op |-> "serialise", arg |-> typ, ret |-> out'])
    /\ pc' = "written"
    /\ UNCHANGED <<f, pos, val, err, hxs, typ>>

NextPropType == PropTypeRead \/ PropTypeWrite

SpecPropType == InitPropType /\ [][NextPropType]_vars

(***************************************************************************)
(* The primitive readers on their own, over streams whole and cut short    *)
(***************************************************************************)
MaxPrimLen == 3

PrimBytes == {0, 1, 3, 128}

\* The readers: VarInt, String, Boolean and CLID by their classes, the
\* version byte and the CRC32 by SerialisableInt, the double, the Int64 and
\* the boolean of a value by _read_value.
Primitives ==
    {"VarInt", "String", "Boolean", "CLID", "version", "crc32", "PFloat", "PInt64", "PBool"}

PrimStreams ==
    SeqsUpTo(PrimBytes, MaxPrimLen)
    \cup {<<128, 1, 0, 0, 0>>, <<128, 1, 0, 0>>, <<1, 2, 3, 4>>,
          <<0, 0, 0, 0, 0, 0, 248, 63>>, <<0, 0, 0, 0, 0, 0, 248>>}

\* The result of _read_value as the record a reader class returns.
ValueResult(r) == [val |-> r.val, pos |-> r.m.pos, err |-> r.m.err]

\* The reader p applied to the stream s at its start.
PrimitiveDeserialise(p, s) ==
    CASE p = "VarInt"  -> VarIntDeserialise(s, 0)
      [] p = "String"  -> StringDeserialise(s, 0)
      [] p = "Boolean" -> BooleanDeserialise(s, 0)
      [] p = "CLID"    -> CLIDDeserialise(s, 0)
      [] p = "version" -> SerialisableIntDeserialise(s, 0, 1)
      [] p = "crc32"   -> SerialisableIntDeserialise(s, 0, 4)
      [] p = "PFloat"  ->
            ValueResult(ReadValue([NewHXSFile EXCEPT !.f = s],
                                  [kind |-> PFloat, defn |-> NoDefn]))
      [] p = "PInt64"  ->
            ValueResult(ReadValue([NewHXSFile EXCEPT !.f = s],
                                  [kind |-> PInt64, defn |-> NoDefn]))
      [] p = "PBool"   ->
            ValueResult(ReadValue([NewHXSFile EXCEPT !.f = s],
                                  [kind |-> PBool, defn |-> NoDefn]))

InitPrimitive ==
    /\ pc = "stream" /\ f \in PrimStreams
    /\ pos = 0 /\ val = None /\ err = OK /\ hist = <<>>
    /\ hxs = NewHXSFile /\ out = <<>> /\ typ = NullPropType

\* One reader reads from the start of BytesIO(f).
PrimitiveRead ==
    /\ pc = "stream"
    /\ \E p \in Primitives :
          LET r == PrimitiveDeserialise(p, f)
          IN  /\ val' = r.val /\ pos' = r.pos /\ err' = r.err
              /\ hist' = Append(hist, [op |-> p, arg |-> f, ret |-> r])
    /\ pc' = "read"
    /\ UNCHANGED <<f, hxs, out, typ>>

NextPrimitive == PrimitiveRead

SpecPrimitive == InitPrimitive /\ [][NextPrimitive]_vars

(***************************************************************************)
(* Claims                                                                  *)
(***************************************************************************)
\* The value whose 4-byte little-endian two's complement form is b.
ValueOfLE32(b) ==
    b[1] + 256 * (b[2] + 256 * (b[3] + 256 * (IF b[4] >= 128 THEN b[4] - 256 ELSE b[4])))

\* b holds the four little-endian two's complement digits of v.
IsLE32Of(b, v) ==
    /\ Len(b) = 4
    /\ b[1] = v % 256
    /\ b[2] = (v \div 256) % 256
    /\ b[3] = (v \div 65536) % 256
    /\ b[4] = (v \div 16777216) % 256

\* C2: VarInt.serialise returns the one byte v when 0 <= v < 128 and otherwise
\* 0x80 followed by v as four little-endian signed bytes; VarInt.deserialise
\* of a one-byte form or of a five-byte form returns the value of that form
\* and leaves the cursor right behind it, and reading back what was written
\* returns the value written.
C2_VarIntCanonical ==
    /\ \A i \in DOMAIN hist :
          LET h == hist[i] IN
          /\ h.op = "serialise" =>
                IF 0 <= h.arg /\ h.arg < 128 THEN h.ret = <<h.arg>>
                ELSE /\ Len(h.ret) = 5
                     /\ h.ret[1] = 128
                     /\ ValueOfLE32(SubSeq(h.ret, 2, 5)) = h.arg
          /\ h.op = "deserialise" /\ Len(h.arg) >= 1 /\ h.arg[1] < 128 =>
                h.ret.err = OK /\ h.ret.val = h.arg[1] /\ h.ret.pos = 1
          /\ h.op = "deserialise" /\ Len(h.arg) >= 5 /\ h.arg[1] = 128 =>
                /\ h.ret.err = OK
                /\ IsLE32Of(SubSeq(h.arg, 2, 5), h.ret.val)
                /\ h.ret.pos = 5
    /\ pc = "read" /\ Len(hist) = 2 =>
          err = OK /\ val = hist[1].arg /\ pos = Len(f)

\* C2: a negative value was written in the long form and read back.
C2_Witness ==
    /\ pc = "read" /\ Len(hist) = 2
    /\ hist[1].arg = -129
    /\ f = <<128, 127, 255, 255, 255>>
    /\ val = -129 /\ pos = 5

\* C3: VarInt.deserialise accepts a single byte in 0x00..0x7F or the byte 0x80
\* followed by four bytes, and nothing else: a lead byte in 0x81..0xFF is not
\* decoded to a value.
C3_OnlyTwoEncodings ==
    \A i \in DOMAIN hist :
        LET h == hist[i] IN
        h.op = "deserialise" /\ h.ret.err = OK =>
            \/ h.arg[1] < 128 /\ h.ret.pos = 1
            \/ h.arg[1] = 128 /\ h.ret.pos = 5

\* C4: a null String is written as the prefix 0 and nothing else, the empty
\* string as the prefix 1 and nothing else, a string of n >= 1 UTF-8 bytes
\* as the prefix n + 1 followed by those bytes; each reads back as the value
\* written, with the cursor at the end of what was written.
C4_StringNullEmpty ==
    /\ \A i \in DOMAIN hist :
          LET h == hist[i] IN
          h.op = "serialise" =>
              IF h.arg = None THEN h.ret.err = OK /\ h.ret.bytes = <<0>>
              ELSE IF h.arg = Str(<<>>) THEN h.ret.err = OK /\ h.ret.bytes = <<1>>
              ELSE LET u == Utf8Encode(h.arg.v).bytes
                       n == Len(u)
                       k == VarIntDeserialise(h.ret.bytes, 0)
                   IN  /\ h.ret.err = OK
                       /\ n >= 1
                       /\ k.err = OK /\ k.val = n + 1
                       /\ k.pos = (IF n + 1 < 128 THEN 1 ELSE 5)
                       /\ SubSeq(h.ret.bytes, k.pos + 1, Len(h.ret.bytes)) = u
    /\ pc = "read" /\ Len(hist) = 2 =>
          err = OK /\ val = hist[1].arg /\ pos = Len(f)

\* C4: the empty string was written as the single byte 1 and read back as
\* the empty string, not as null.
C4_Witness ==
    /\ pc = "read" /\ Len(hist) = 2
    /\ hist[1].arg = Str(<<>>)
    /\ f = <<1>>
    /\ val = Str(<<>>) /\ val # None

\* The call made last.
Last == hist[Len(hist)]

\* The places in the log of the events e about Obj o.
EventsOf(log, e, o) == {i \in 1..Len(log) : log[i].e = e /\ log[i].obj = o}

\* C1: for a file that a new instance decodes without error and to its end,
\* serialise on the decoded instance succeeds and returns the file's bytes.
C1_RoundTrip ==
    (/\ pc = "file" /\ Len(hist) = 2
     /\ hist[1].op = "deserialise" /\ hist[1].err = OK /\ hist[1].pos = Len(hist[1].arg)
     /\ hist[2].op = "serialise")
    => hist[2].err = OK /\ hist[2].ret = hist[1].arg

\* C5: in an encode pass every Obj has its fields written at most once, right
\* after the reference that met it first and wrote its new UID; every later
\* reference to it, from inside its own fields or from elsewhere, writes the
\* bytes of that UID's VarInt and nothing else.
C5_FieldsOnce ==
    (pc = "file" /\ hist # <<>> /\ Last.op = "serialise")
    => LET log == hxs.log
       IN  \A o \in 1..Len(hxs.heap) :
              /\ Cardinality(EventsOf(log, "wfields", o)) <= 1
              /\ Cardinality(EventsOf(log, "wnew", o)) <= 1
              /\ \A i \in EventsOf(log, "wfields", o) :
                    i > 1 /\ log[i - 1].e = "wnew" /\ log[i - 1].obj = o
              /\ \A i \in EventsOf(log, "wnew", o) :
                    i < Len(log) /\ log[i + 1].e = "wfields" /\ log[i + 1].obj = o
              /\ \A j \in EventsOf(log, "wseen", o) :
                    /\ \E i \in EventsOf(log, "wnew", o) : i < j /\ log[i].uid = log[j].uid
                    /\ SubSeq(hxs.buffer, log[j].from + 1, log[j].to)
                          = VarIntSerialise(log[j].uid)
                    /\ (j < Len(log) => log[j + 1].e # "wfields")

\* C5: a pass that succeeded met an Obj again inside its own fields and met
\* another Obj again after its fields were finished.
C5_Witness ==
    /\ pc = "file" /\ hist # <<>> /\ Last.op = "serialise" /\ err = OK
    /\ \E o \in 1..Len(hxs.heap) : \E j \in EventsOf(hxs.log, "wseen", o) :
          /\ \E i \in EventsOf(hxs.log, "wfields", o) : i < j
          /\ \A k \in EventsOf(hxs.log, "encoded", o) : j < k
    /\ \E o \in 1..Len(hxs.heap) : \E j \in EventsOf(hxs.log, "wseen", o) :
          \E k \in EventsOf(hxs.log, "encoded", o) : k < j

\* The length of the VarInt that starts behind position p of stream s.
VarIntLenAt(s, p) == IF s[p + 1] = 128 THEN 5 ELSE 1

\* C6: within one decode, of two references with the same nonzero UID the
\* later one returns the Obj of the earlier one, creates none, and moves the
\* cursor over the UID's VarInt only; no Obj has its fields decoded twice;
\* and on an instance that has decoded nothing before, the first reference
\* with a UID creates the Obj and decodes its fields.
C6_SameInstance ==
    (pc = "file" /\ hist # <<>> /\ Last.op = "deserialise")
    => LET log  == hxs.log
           refs == {i \in 1..Len(log) : log[i].e \in {"new", "seen"}}
       IN  /\ \A i, j \in refs :
                  (i < j /\ log[i].uid = log[j].uid) =>
                      /\ log[j].e = "seen"
                      /\ log[j].obj = log[i].obj
                      /\ log[j].to - log[j].from = VarIntLenAt(Last.arg, log[j].from)
                      /\ (j < Len(log) => log[j + 1].e # "fields")
           /\ \A o \in 1..Len(hxs.heap) : Cardinality(EventsOf(log, "fields", o)) <= 1
           /\ Last.fresh =>
                 \A i \in refs :
                     (\A k \in refs : k < i => log[k].uid # log[i].uid) =>
                         /\ log[i].e = "new"
                         /\ i < Len(log)
                         /\ log[i + 1].e = "fields" /\ log[i + 1].obj = log[i].obj

\* C6: a new instance has decoded a root whose two fields carry the UID 2:
\* both hold the one Obj the first of the two references created.
C6_Witness ==
    /\ pc = "file" /\ Len(hist) = 1 /\ Last.op = "deserialise" /\ err = OK
    /\ hxs.obj # None
    /\ LET fields == hxs.heap[hxs.obj.v].fields
       IN  /\ DictGet(fields, Str(<<97>>)).t = "obj"
           /\ DictGet(fields, Str(<<97>>)) = DictGet(fields, Str(<<98>>))
           /\ DictGet(fields, Str(<<97>>)) # hxs.obj
    /\ \E i, j \in 1..Len(hxs.log) :
          /\ i < j /\ hxs.log[i].e = "new" /\ hxs.log[j].e = "seen"
          /\ hxs.log[i].uid = 2 /\ hxs.log[j].uid = 2

\* The Objs a value refers to.
RECURSIVE ObjsIn(_)
ObjsIn(x) ==
    CASE x.t = "obj" -> {x.v}
      [] x.t = "list" -> UNION {ObjsIn(x.v[i]) : i \in 1..Len(x.v)}
      [] x.t = "dict" -> UNION {ObjsIn(x.v[i][1]) \cup ObjsIn(x.v[i][2]) : i \in 1..Len(x.v)}
      [] OTHER -> {}

\* The Objs the fields of Obj o refer to.
RefsOf(o) ==
    UNION {ObjsIn(hxs.heap[o].fields[i][2]) : i \in 1..Len(hxs.heap[o].fields)}

\* The Objs reached from those of S in at most n more steps.
RECURSIVE ReachFrom(_, _)
ReachFrom(S, n) ==
    IF n = 0 THEN S ELSE ReachFrom(S \cup UNION {RefsOf(o) : o \in S}, n - 1)

\* Obj o is reached from its own fields.
OnCycle(o) == o \in ReachFrom(RefsOf(o), Len(hxs.heap))

\* C7: an Obj is in the uid->Obj table when the decoding of its fields
\* begins; a reference with its UID met before its fields are finished
\* returns that Obj and creates none; and when the decode has returned
\* without error the Obj is reached from its own fields.
C7_CycleSafe ==
    (pc = "file" /\ hist # <<>> /\ Last.op = "deserialise")
    => LET log == hxs.log
       IN  \A i \in 1..Len(log) :
              log[i].e = "fields" =>
                 /\ log[i].uid # 0
                 /\ \A j \in (i + 1)..Len(log) :
                       (/\ log[j].e \in {"new", "seen"}
                        /\ log[j].uid = log[i].uid
                        /\ \A k \in EventsOf(log, "decoded", log[i].obj) : j < k)
                       => /\ log[j].e = "seen"
                          /\ log[j].obj = log[i].obj
                          /\ (err = OK => OnCycle(log[i].obj))

\* C7: a decode has returned without error a root that is its own field, and
\* one whose cycle runs through two other Objs.
C7_Witness ==
    /\ pc = "file" /\ hist # <<>> /\ Last.op = "deserialise" /\ err = OK
    /\ hxs.obj # None
    /\ \/ DictGet(hxs.heap[hxs.obj.v].fields, Str(<<97>>)) = hxs.obj
       \/ /\ Len(hxs.log) >= 6
          /\ hxs.obj.v \notin RefsOf(hxs.obj.v)
          /\ OnCycle(hxs.obj.v)
          /\ \E j \in 1..Len(hxs.log) :
                hxs.log[j].e = "seen" /\ hxs.log[j].obj = hxs.obj.v

\* The bytes the j-th declared field took in a write of a PObj value, from
\* the events of the write.
FieldBytes(h, j) ==
    LET i == CHOOSE i \in 1..Len(h.log) : h.log[i].e = "wfield" /\ h.log[i].obj = j
    IN  SubSeq(h.ret, h.log[i].from + 1, h.log[i].to)

\* The mask a write of a PObj value wrote, before the offset of one.
MaskOf(h) == h.log[CHOOSE i \in 1..Len(h.log) : h.log[i].e = "wmask"].uid

\* C8: a write of a non-null PObj value sets in the mask exactly the bits of
\* its nullable fields whose value is not null, bit k for the k-th nullable
\* field in declaration order, and no bit beyond; and when the caller sets
\* or clears one nullable field between two writes, the second write
\* succeeds as the first did, the bit of every other nullable field and the
\* bytes of every other field are the same in both, and the bit of the
\* field changed is not.
C8_PresenceFrame ==
    (pc = "value" /\ typ.kind = PObj)
    => LET fields   == typ.defn.fields
           nullable == {j \in 1..Len(fields) : IsFieldNullable(fields[j].type)}
       IN  /\ \A k \in 1..Len(hist) :
                  (hist[k].op = "write" /\ hist[k].err = OK /\ hist[k].arg.t = "dict") =>
                      /\ MaskOf(hist[k]) >= 0
                      /\ MaskOf(hist[k]) < 2 ^ Cardinality(nullable)
                      /\ \A j \in nullable :
                            BitSet(MaskOf(hist[k]), BitIndexOf(fields, j))
                               <=> DictGet(hist[k].arg.v,
                                           FieldKey(fields[j], BitIndexOf(fields, j))) # None
           /\ \A k \in 1..(Len(hist) - 2) :
                  (/\ hist[k].op = "write" /\ hist[k].err = OK
                   /\ hist[k + 1].op = "toggle"
                   /\ hist[k + 2].op = "write")
                  => /\ hist[k + 2].err = OK
                     /\ \A j \in 1..Len(fields) :
                           j # hist[k + 1].arg =>
                               FieldBytes(hist[k], j) = FieldBytes(hist[k + 2], j)
                     /\ \A j \in nullable :
                           (BitSet(MaskOf(hist[k]), BitIndexOf(fields, j))
                               = BitSet(MaskOf(hist[k + 2]), BitIndexOf(fields, j)))
                           <=> j # hist[k + 1].arg

\* C9: a new instance decodes a minimal file without error and to its end
\* into one classdef "A" with CLID 1 and the file's CRC32, one schema of UID
\* 1 with no field name and no field type, and a root Obj with no field; and
\* serialise on that instance then returns the file's bytes.
C9_MinimalFile ==
    /\ (/\ pc = "file" /\ hist # <<>> /\ Last.op = "deserialise"
        /\ Last.fresh /\ Last.arg \in MinimalFiles)
       => /\ err = OK /\ pos = Len(Last.arg)
          /\ Len(hxs.classdefs) = 1
          /\ hxs.classdefs[1].name = Str(<<65>>)
          /\ hxs.classdefs[1].clid = 1
          /\ hxs.classdefs[1].crc32 = SubSeq(Last.arg, 10, 13)
          /\ Len(hxs.schemas) = 1
          /\ hxs.schemas[1].uid = 1
          /\ hxs.schemas[1].field_names = <<>>
          /\ hxs.schemas[1].field_types = <<>>
          /\ hxs.obj # None
          /\ hxs.heap[hxs.obj.v].fields = <<>>
          /\ hxs.heap[hxs.obj.v].schema = 1
          /\ DOMAIN hxs.objects = {1}
    /\ (/\ pc = "file" /\ Len(hist) >= 2 /\ Last.op = "serialise"
        /\ hist[Len(hist) - 1].op = "deserialise" /\ hist[Len(hist) - 1].fresh
        /\ hist[Len(hist) - 1].arg \in MinimalFiles)
       => err = OK /\ out = hist[Len(hist) - 1].arg

\* C9: the minimal file with the CRC32 0x12345678 was decoded and encoded again.
C9_Witness ==
    /\ pc = "file" /\ Len(hist) = 2
    /\ hist[1].op = "deserialise" /\ hist[2].op = "serialise"
    /\ f = <<4, 72, 88, 83, 1, 2, 65, 0, 1, 120, 86, 52, 18, 0, 4, 1, 1, 1, 1, 1>>
    /\ out = f
    /\ hxs.obj # None /\ Len(hxs.classdefs) = 1 /\ Len(hxs.schemas) = 1

\* The kinds the value codec does not implement.
UnsupportedKinds ==
    {PVector, PUnknown, PDynamic, PCustom, PSerInterface, PStruct, PAliasCDB, PNoSave}

\* C10: as one of the kinds Vector, Unknown, Dynamic, Custom, SerInterface,
\* Struct, AliasCDB and NoSave, reading a value raises NotImplementedError
\* with the cursor where it was, and writing a value raises
\* NotImplementedError with nothing written.
C10_UnsupportedKindsFail ==
    (pc = "value" /\ typ.kind \in UnsupportedKinds)
    => \A k \in 1..Len(hist) :
          /\ hist[k].op \in {"read", "write"} => hist[k].err = "NotImplementedError"
          /\ hist[k].op = "read" => hist[k].pos = 0
          /\ hist[k].op = "write" => hist[k].ret = <<>>

\* C10: a value was read and a value was written as a Struct.
C10_Witness ==
    /\ pc = "value" /\ typ.kind = PStruct
    /\ \E k \in 1..Len(hist) : hist[k].op = "read"
    /\ \E k \in 1..Len(hist) : hist[k].op = "write" /\ hist[k].arg # None
    /\ err = "NotImplementedError"

\* The number of bytes the format prescribes for the reader p at the start
\* of the stream s: one for a VarInt whose lead byte is missing or is not
\* 0x80 and five otherwise, the prefix and the prefix less one for a String.
Prescribed(p, s) ==
    CASE p = "VarInt" -> IF s # <<>> /\ s[1] = 128 THEN 5 ELSE 1
      [] p = "String" ->
            LET k == VarIntDeserialise(s, 0)
            IN  IF k.err # OK THEN Len(s) + 1
                ELSE IF k.val > 1 THEN k.pos + k.val - 1 ELSE k.pos
      [] p \in {"Boolean", "PBool", "version"} -> 1
      [] p = "CLID" -> 2
      [] p = "crc32" -> 4
      [] p \in {"PFloat", "PInt64"} -> 8

\* C11: a primitive read that finds fewer bytes in the stream than it
\* requires fails; it returns no value, neither zero nor one made of the
\* bytes there are.
C11_ShortReadFails ==
    \A i \in DOMAIN hist :
        Len(hist[i].arg) < Prescribed(hist[i].op, hist[i].arg) => hist[i].ret.err # OK

\* The stream s does not begin with the magic string "HXS" followed by the
\* version byte 1.
BadHeader(s) ==
    LET mg == StringDeserialise(s, 0)
    IN  \/ mg.err # OK
        \/ mg.val # Str(<<72, 88, 83>>)
        \/ mg.pos >= Len(s)
        \/ s[mg.pos + 1] # 1

\* C12: a decode of a stream whose magic string is not "HXS" or whose version
\* byte is not 1 fails with the cursor no further than the version byte: it
\* appends no class definition and no schema, creates no Obj, registers no
\* UID and sets no root.
C12_BadHeaderFails ==
    [][(/\ hist' # hist
        /\ hist'[Len(hist')].op = "deserialise"
        /\ BadHeader(hist'[Len(hist')].arg))
       => /\ err' # OK
          /\ pos' <= StringDeserialise(hist'[Len(hist')].arg, 0).pos + 1
          /\ hxs'.classdefs = hxs.classdefs
          /\ hxs'.schemas = hxs.schemas
          /\ hxs'.objects = hxs.objects
          /\ hxs'.heap = hxs.heap
          /\ hxs'.obj = hxs.obj
          /\ hxs'.log = <<>>]_vars

\* C12: a new instance has refused the smallest file with the version byte 2
\* and holds no class definition, no schema and no root.
C12_Witness ==
    /\ pc = "file" /\ Len(hist) = 1 /\ Last.op = "deserialise"
    /\ f = <<4, 72, 88, 83, 2>> \o ClassA(Crc) \o <<0, 4, 1, 1, 1, 1, 1>>
    /\ err = "AssertionError" /\ pos = 5
    /\ hxs.classdefs = <<>> /\ hxs.schemas = <<>> /\ hxs.obj = None

\* A new instance after it has decoded the header, the class table and the
\* schema block of the stream s: its cursor is where the root reference is
\* to begin.
BeforeRoot(s) ==
    ReadSchemaBlock(ReadClassTable(ReadVersion(ReadMagic([NewHXSFile EXCEPT !.f = s]))))

\* C13: what serialise returns has a root reference behind its schema block,
\* the single byte 0 and nothing else when the root is null; and a new
\* instance decodes a file whose root reference is the UID 0 without error
\* to a null root and an empty uid->Obj table.
C13_RootReference ==
    /\ (pc = "file" /\ hist # <<>> /\ Last.op = "serialise" /\ err = OK)
       => /\ BeforeRoot(out).err = OK
          /\ BeforeRoot(out).pos < Len(out)
          /\ hxs.obj = None => SubSeq(out, BeforeRoot(out).pos + 1, Len(out)) = <<0>>
    /\ (/\ pc = "file" /\ hist # <<>> /\ Last.op = "deserialise" /\ Last.fresh
        /\ BeforeRoot(Last.arg).err = OK
        /\ BeforeRoot(Last.arg).pos < Len(Last.arg)
        /\ Last.arg[BeforeRoot(Last.arg).pos + 1] = 0)
       => err = OK /\ hxs.obj = None /\ hxs.objects = <<>>

\* C14: a decode starts from an empty uid->Obj table, whatever the instance
\* has decoded before: a reference it returns from the table was registered
\* by a reference of the same decode, and when it has returned the table
\* holds the UIDs this decode has registered and no other.
C14_TableReset ==
    (pc = "file" /\ hist # <<>> /\ Last.op = "deserialise")
    => LET log == hxs.log
       IN  /\ \A j \in 1..Len(log) :
                  log[j].e = "seen" =>
                      \E i \in 1..(j - 1) :
                          /\ log[i].e = "new"
                          /\ log[i].uid = log[j].uid
                          /\ log[i].obj = log[j].obj
           /\ DOMAIN hxs.objects = {log[i].uid : i \in {k \in 1..Len(log) : log[k].e = "new"}}

\* C15: a pass begins with an empty identity->UID table and the counter at
\* 1, so the first Obj it meets is new and gets the UID 1; and of two
\* serialise calls with no other call between them the second ends as the
\* first did and returns the same bytes.
C15_SerialiseRepeatable ==
    /\ (pc = "file" /\ hist # <<>> /\ Last.op = "serialise")
       => \A i \in 1..Len(hxs.log) :
             (/\ hxs.log[i].e \in {"wnew", "wseen"}
              /\ \A k \in 1..(i - 1) : hxs.log[k].e \notin {"wnew", "wseen"})
             => hxs.log[i].e = "wnew" /\ hxs.log[i].uid = 1
    /\ pc = "file"
       => \A k \in 1..(Len(hist) - 1) :
             (hist[k].op = "serialise" /\ hist[k + 1].op = "serialise")
             => hist[k + 1].err = hist[k].err /\ hist[k + 1].ret = hist[k].ret

\* C15: an instance that decoded a root with an Obj shared by two fields was
\* encoded twice in a row, both times to the bytes it had decoded.
C15_Witness ==
    /\ pc = "file" /\ Len(hist) = 3
    /\ hist[1].op = "deserialise" /\ hist[1].err = OK
    /\ hist[2].op = "serialise" /\ hist[3].op = "serialise"
    /\ err = OK /\ hist[2].ret = out /\ out = f
    /\ \E i \in 1..Len(hxs.log) : hxs.log[i].e = "wseen"

\* C16: as an Alias of the type T a value is read as it is read as T, to the
\* same value, cursor and outcome, and written as it is written as T, to the
\* same bytes and outcome.
C16_AliasTransparent ==
    (pc = "value" /\ typ.kind = PAlias /\ typ.defn.d = "TypeDef")
    => \A k \in 1..Len(hist) :
          /\ hist[k].op = "read" =>
                LET r == ReadValue([NewHXSFile EXCEPT !.f = hist[k].arg], typ.defn.type)
                IN  /\ hist[k].err = r.m.err
                    /\ hist[k].pos = r.m.pos
                    /\ hist[k].ret = r.val
          /\ hist[k].op = "write" =>
                LET w == WriteValue(NewHXSFile, typ.defn.type, hist[k].arg)
                IN  /\ hist[k].err = w.err
                    /\ hist[k].ret = w.buffer

\* C17: a PropType that was read from a stream without error serialises to
\* the bytes the read consumed.
C17_PropTypeInverse ==
    pc = "written" => out = SubSeq(f, 1, pos)

\* C18: when a decode has returned without error, every schema of the
\* instance has as many field names as field types.
C18_NamesMatchTypes ==
    (pc = "file" /\ hist # <<>> /\ Last.op = "deserialise" /\ err = OK)
    => \A i \in 1..Len(hxs.schemas) :
          Len(hxs.schemas[i].field_names) = Len(hxs.schemas[i].field_types)

\* The schema_size of the stream s as a new instance reads it: its value,
\* and the cursor behind it, where the schema block starts.
SchemaSizeOf(s) ==
    LET c == ReadClassTable(ReadVersion(ReadMagic([NewHXSFile EXCEPT !.f = s])))
    IN  VarIntDeserialise(s, c.pos)

\* The cursor behind the n-th schema record of the stream s, the first one
\* starting at position p.
RECURSIVE SchemaEnd(_, _, _)
SchemaEnd(s, p, n) ==
    IF n = 0 THEN p ELSE SchemaDeserialise(s, SchemaEnd(s, p, n - 1)).pos

\* C19: a new instance that has decoded a stream with a schema block without
\* error has decoded a schema record at every cursor before the start of the
\* block plus schema_size and none at or past it; the root reference is read
\* where the last record ended; and when that is not the boundary, an event
\* of the decode reports the mismatch.
C19_SchemaBlockFraming ==
    (/\ pc = "file" /\ hist # <<>> /\ Last.op = "deserialise" /\ Last.fresh
     /\ err = OK /\ SchemaSizeOf(Last.arg).val > 0)
    => LET start    == SchemaSizeOf(Last.arg).pos
           boundary == start + SchemaSizeOf(Last.arg).val
           n        == Len(hxs.schemas)
       IN  /\ \A i \in 0..(n - 1) : SchemaEnd(Last.arg, start, i) < boundary
           /\ SchemaEnd(Last.arg, start, n) >= boundary
           /\ hxs.log # <<>> /\ hxs.log[1].from = SchemaEnd(Last.arg, start, n)
           /\ SchemaEnd(Last.arg, start, n) # boundary
                 => \E i \in 1..Len(hxs.log) : hxs.log[i].e = "mismatch"

\* The places in the log of the references that met a new Obj, up to place i.
NewUpTo(log, i) == {k \in 1..i : log[k].e = "wnew"}

\* C20: at every step of an encode pass the Objs met so far have the UIDs
\* 1..k in the order they were met: the j-th Obj met gets the UID j, no Obj
\* gets two and no two get one, a reference to an Obj met before writes the
\* UID it has; and where the pass ends, with or without error, the table
\* holds these k pairs and next_uid is k + 1.
C20_UidsDense ==
    (pc = "file" /\ hist # <<>> /\ Last.op = "serialise")
    => LET log == hxs.log
           new == NewUpTo(log, Len(log))
       IN  /\ \A i \in new : log[i].uid = Cardinality(NewUpTo(log, i))
           /\ \A i, j \in new : i # j => log[i].obj # log[j].obj
           /\ \A j \in 1..Len(log) :
                 log[j].e = "wseen" =>
                     \E i \in NewUpTo(log, j) :
                         log[i].obj = log[j].obj /\ log[i].uid = log[j].uid
           /\ hxs.next_uid = Cardinality(new) + 1
           /\ DOMAIN hxs.written_objects = {ObjRef(log[i].obj) : i \in new}
           /\ \A i \in new : hxs.written_objects[ObjRef(log[i].obj)] = log[i].uid
           /\ {hxs.written_objects[x] : x \in DOMAIN hxs.written_objects}
                 = 1..Cardinality(new)

\* C20: a pass has met three Objs, one of them twice, and ended without
\* error with next_uid = 4; the root it wrote first had another UID in the
\* file it was decoded from.
C20_Witness ==
    /\ pc = "file" /\ Len(hist) = 2 /\ hist[1].op = "deserialise" /\ Last.op = "serialise"
    /\ err = OK
    /\ \/ /\ hxs.next_uid = 4
          /\ \E j \in 1..Len(hxs.log) : hxs.log[j].e = "wseen"
       \/ /\ hxs.next_uid = 3
          /\ hxs.objects[2] = hxs.obj
          /\ hxs.written_objects[hxs.obj] = 1

\* Whether a field of type pt has a presence bit, by the kinds: every kind
\* but Int, Float, Bool, Int64 and Flags has one, an Alias, AliasCDB or
\* NoSave as the type it wraps, and a field without a type has one.
RECURSIVE NullableKind(_)
NullableKind(pt) ==
    IF pt = Absent THEN TRUE
    ELSE IF pt.kind \in {PAlias, PAliasCDB, PNoSave} THEN NullableKind(pt.defn.type)
    ELSE pt.kind \notin {PInt, PFloat, PBool, PInt64, PFlags}

\* The number of fields with a presence bit declared before the j-th.
BitsBefore(fields, j) == Cardinality({i \in 1..(j - 1) : NullableKind(fields[i].type)})

\* The key of the j-th declared field in the mapping a read returns.
KeyOf(fields, j) == FieldKey(fields[j], BitsBefore(fields, j))

\* No field declared after the j-th has the key of the j-th: the entry of
\* that key in the mapping is the j-th field's.
LastWithKey(fields, j) ==
    \A i \in (j + 1)..Len(fields) : ~KeyEq(KeyOf(fields, i), KeyOf(fields, j))

\* The places in the log h.log of the events about the j-th declared field
\* of a read of a PObj value.
FieldReads(h, j) == {i \in 1..Len(h.log) : h.log[i].e = "rfield" /\ h.log[i].obj = j}

\* C21: a read of a PObj value reads the VarInt bits + 1; for 0 it returns
\* null and reads no more.  Otherwise it visits the declared fields in order,
\* each once and each where the one before ended: a field with a presence
\* bit is read when the bit of bits numbered by the count of such fields
\* before it is set, a field without one is read always, a field that is read
\* takes the bytes and has the value of a read of its type there, and a field
\* that is not read takes no byte and is null; the mapping returned holds
\* under a field's key what the last field declared with that key has.
C21_PresenceBits ==
    (pc = "value" /\ typ.kind = PObj)
    => \A k \in 1..Len(hist) :
          hist[k].op = "read" /\ VarIntDeserialise(hist[k].arg, 0).err = OK =>
             LET h      == hist[k]
                 b      == VarIntDeserialise(h.arg, 0)
                 fields == typ.defn.fields
                 ev(j)  == h.log[CHOOSE i \in FieldReads(h, j) : TRUE]
             IN  /\ b.val = 0 => h.err = OK /\ h.ret = None /\ h.pos = b.pos /\ h.log = <<>>
                 /\ \A j \in 1..Len(fields) :
                       /\ Cardinality(FieldReads(h, j)) <= 1
                       /\ h.err = OK /\ b.val # 0 => Cardinality(FieldReads(h, j)) = 1
                       /\ FieldReads(h, j) # {} =>
                             /\ ev(j).from = (IF j = 1 THEN b.pos ELSE ev(j - 1).to)
                             /\ j > 1 => FieldReads(h, j - 1) # {}
                             /\ ev(j).uid = 1 <=>
                                   \/ ~NullableKind(fields[j].type)
                                   \/ BitSet(b.val - 1, BitsBefore(fields, j))
                             /\ ev(j).uid = 0 => ev(j).to = ev(j).from
                             /\ ev(j).uid = 1 =>
                                   LET r == IF fields[j].type # Absent
                                            THEN ReadValue([NewHXSFile EXCEPT
                                                              !.f = h.arg, !.pos = ev(j).from],
                                                           fields[j].type)
                                            ELSE ReadString([NewHXSFile EXCEPT
                                                               !.f = h.arg, !.pos = ev(j).from])
                                   IN  /\ r.m.err = OK
                                       /\ ev(j).to = r.m.pos
                                       /\ (h.err = OK /\ LastWithKey(fields, j)) =>
                                             DictGet(h.ret.v, KeyOf(fields, j)) = r.val
                             /\ (h.err = OK /\ ev(j).uid = 0 /\ LastWithKey(fields, j)) =>
                                   DictGet(h.ret.v, KeyOf(fields, j)) = None
                 /\ (h.err = OK /\ b.val # 0) =>
                       /\ h.ret.t = "dict"
                       /\ h.pos = (IF fields = <<>> THEN b.pos ELSE ev(Len(fields)).to)

\* C21: of the fields "p" an Alias of Int, "q" an Alias of String and "r" a
\* Flags, read from the bytes 01 05 03, "p" and "r" were read without a bit
\* and "q", whose bit 0 is clear, is null and took no byte.
C21_Witness ==
    /\ pc = "value" /\ typ = PropTypeDeserialise(TObjAlias, 0).val
    /\ f = <<1, 5, 3>> /\ hist # <<>>
    /\ hist[Len(hist)].op = "read" /\ err = OK /\ pos = 3
    /\ val.t = "dict"
    /\ DictGet(val.v, Str(<<112>>)) = PyInt(5)
    /\ DictGet(val.v, Str(<<113>>)) = None
    /\ DictGet(val.v, Str(<<114>>)) = PyInt(3)

\* C22: when a PObj value that was read without error and is not null is
\* written next, the write succeeds, and every field with a presence bit
\* whose bit was set in the stream has its bit set in the mask written and
\* the bytes it was read from written again.
C22_MaskReproduced ==
    (pc = "value" /\ typ.kind = PObj)
    => \A k \in 1..(Len(hist) - 1) :
          (/\ hist[k].op = "read" /\ hist[k].err = OK /\ hist[k].ret # None
           /\ hist[k + 1].op = "write")
          => LET r      == hist[k]
                 w      == hist[k + 1]
                 fields == typ.defn.fields
                 bits   == VarIntDeserialise(r.arg, 0).val - 1
             IN  /\ w.err = OK
                 /\ \A j \in 1..Len(fields) :
                       (NullableKind(fields[j].type) /\ BitSet(bits, BitsBefore(fields, j)))
                       => /\ BitSet(MaskOf(w), BitsBefore(fields, j))
                          /\ LET e == r.log[CHOOSE i \in FieldReads(r, j) : TRUE]
                             IN  FieldBytes(w, j) = SubSeq(r.arg, e.from + 1, e.to)

\* The result of a read of a value of type pt at position p of the stream s.
ReadAt(s, p, pt) == ReadValue([NewHXSFile EXCEPT !.f = s, !.pos = p], pt)

\* The cursor behind the i-th element of an Array of pt whose first element
\* starts at position p of the stream s.
RECURSIVE ItemEnd(_, _, _, _)
ItemEnd(s, pt, p, i) ==
    IF i = 0 THEN p ELSE ReadAt(s, ItemEnd(s, pt, p, i - 1), pt).m.pos

\* The cursor behind the i-th pair of a Map from kt to vt whose first pair
\* starts at position p of the stream s.
RECURSIVE PairEnd(_, _, _, _, _)
PairEnd(s, kt, vt, p, i) ==
    IF i = 0 THEN p
    ELSE ReadAt(s, ReadAt(s, PairEnd(s, kt, vt, p, i - 1), kt).m.pos, vt).m.pos

\* C23: as an Array or a Map, the prefix 0 is read as null and null is
\* written as the prefix 0; the prefix n + 1 is read, when the read succeeds,
\* as a list of the n elements or a mapping of the n pairs that follow, in
\* the order of the stream; and writing what was read writes the prefix
\* n + 1 and n elements or pairs that read as the same value again.
C23_CountPrefix ==
    (pc = "value" /\ typ.kind \in {PArray, PMap})
    => \A k \in 1..Len(hist) :
          /\ (hist[k].op = "write" /\ hist[k].arg = None)
             => hist[k].err = OK /\ hist[k].ret = <<0>>
          /\ (hist[k].op = "read" /\ VarIntDeserialise(hist[k].arg, 0).err = OK)
             => LET h == hist[k]
                    b == VarIntDeserialise(h.arg, 0)
                    n == b.val - 1
                IN  /\ b.val = 0 => h.err = OK /\ h.ret = None /\ h.pos = b.pos
                    /\ (b.val > 0 /\ h.err = OK) =>
                          /\ h.ret # None
                          /\ Len(h.ret.v) = n
                          /\ typ.kind = PArray =>
                                /\ h.ret.t = "list"
                                /\ h.pos = ItemEnd(h.arg, typ.defn.type, b.pos, n)
                                /\ \A i \in 1..n :
                                      h.ret.v[i]
                                         = ReadAt(h.arg,
                                                  ItemEnd(h.arg, typ.defn.type, b.pos, i - 1),
                                                  typ.defn.type).val
                          /\ typ.kind = PMap =>
                                /\ h.ret.t = "dict"
                                /\ h.pos = PairEnd(h.arg, typ.defn.key_type,
                                                   typ.defn.value_type, b.pos, n)
                                /\ \A i \in 1..n :
                                      LET p == PairEnd(h.arg, typ.defn.key_type,
                                                       typ.defn.value_type, b.pos, i - 1)
                                          key == ReadAt(h.arg, p, typ.defn.key_type)
                                      IN  /\ h.ret.v[i][1] = key.val
                                          /\ h.ret.v[i][2]
                                                = ReadAt(h.arg, key.m.pos,
                                                         typ.defn.value_type).val
                          /\ (k < Len(hist) /\ hist[k + 1].op = "write") =>
                                /\ hist[k + 1].err = OK
                                /\ VarIntDeserialise(hist[k + 1].ret, 0).val = n + 1
                                /\ ReadAt(hist[k + 1].ret, 0, typ).m.err = OK
                                /\ ReadAt(hist[k + 1].ret, 0, typ).m.pos = Len(hist[k + 1].ret)
                                /\ ReadAt(hist[k + 1].ret, 0, typ).val = h.ret

\* The schemas of the instance m with their links taken off.
Unlinked(m) == [i \in 1..Len(m.schemas) |-> [m.schemas[i] EXCEPT !.classdef = 0]]

RECURSIVE TableAt(_, _, _)
TableAt(t0, log, k) ==
    IF k = 0 THEN t0
    ELSE IF log[k].e = "new"
         THEN (log[k].uid :> ObjRef(log[k].obj)) @@ TableAt(t0, log, k - 1)
         ELSE TableAt(t0, log, k - 1)

\* C25: at every point of a decode the uid->Obj table holds distinct Obj
\* under distinct UIDs, every Obj the decode has created so far is in it
\* under exactly one UID, the one of the reference that created it, and no
\* creation takes a UID that this decode has registered before; the table
\* the decode ends with is the one these registrations build.
C25_TableInjective ==
    [][(hist' # hist /\ hist'[Len(hist')].op = "deserialise")
       => LET log == hxs'.log
              t0  == hxs.objects
              new == {i \in 1..Len(log) : log[i].e = "new"}
          IN  /\ hxs'.objects = TableAt(t0, log, Len(log))
              /\ {log[i].obj : i \in new} = (Len(hxs.heap) + 1)..Len(hxs'.heap)
              /\ \A i, j \in new : i # j => log[i].obj # log[j].obj /\ log[i].uid # log[j].uid
              /\ \A k \in 0..Len(log) :
                    LET t == TableAt(t0, log, k)
                    IN  /\ \A u, v \in DOMAIN t : u # v => t[u] # t[v]
                        /\ \A i \in new :
                              i <= k => /\ log[i].uid \in DOMAIN t
                                        /\ {u \in DOMAIN t : t[u] = ObjRef(log[i].obj)}
                                              = {log[i].uid}]_vars

\* C25: a decode that succeeded has registered three Obj under three UIDs and
\* has met one of them again.
C25_Witness ==
    /\ pc = "file" /\ hist # <<>> /\ Last.op = "deserialise" /\ err = OK
    /\ Cardinality({i \in 1..Len(hxs.log) : hxs.log[i].e = "new"}) >= 3
    /\ \E i \in 1..Len(hxs.log) : hxs.log[i].e = "seen"
    /\ \A i \in 1..Len(hxs.log) :
          hxs.log[i].e = "new" => hxs.objects[hxs.log[i].uid] = ObjRef(hxs.log[i].obj)

\* C26: when a new instance has decoded a file without error and serialise
\* on it has succeeded, a new instance decodes the bytes returned without
\* error and to their end, and serialise on that instance succeeds and
\* returns the same bytes.
C26_OutputStable ==
    (/\ pc = "file" /\ Len(hist) = 2
     /\ hist[1].op = "deserialise" /\ hist[1].err = OK
     /\ hist[2].op = "serialise" /\ hist[2].err = OK)
    => LET d == Deserialise(NewHXSFile, hist[2].ret)
       IN  /\ d.err = OK
           /\ d.pos = Len(hist[2].ret)
           /\ Serialise(d).m.err = OK
           /\ Serialise(d).val = hist[2].ret

\* A stream that carries the magic and the version the format prescribes.
GoodHeader(s) == ReadVersion(ReadMagic([NewHXSFile EXCEPT !.f = s])).err = OK

\* C27: a new instance that decodes a file up to its root reference without
\* error and has read no schema raises an error there, with the cursor left
\* before the reference, whatever the byte that follows; and when it has
\* read a schema, the Obj a nonzero root UID creates is one of the first
\* schema, whatever the UID, and is the root.
C27_RootFirstSchema ==
    (pc = "file" /\ hist # <<>> /\ Last.op = "deserialise" /\ Last.fresh
     /\ BeforeRoot(Last.arg).err = OK)
    => LET b == BeforeRoot(Last.arg)
           u == VarIntDeserialise(Last.arg, b.pos)
       IN  /\ Len(b.schemas) = 0
              => /\ err # OK /\ pos = b.pos
                 /\ hxs.obj = None /\ hxs.log = <<>> /\ hxs.heap = <<>>
           /\ (Len(b.schemas) > 0 /\ u.err = OK /\ u.val # 0)
              => /\ hxs.log # <<>> /\ hxs.log[1].e = "new" /\ hxs.log[1].uid = u.val
                 /\ hxs.heap[hxs.log[1].obj].schema = 1
                 /\ hxs.objects[u.val] = ObjRef(hxs.log[1].obj)
                 /\ err = OK => hxs.obj = ObjRef(hxs.log[1].obj)

\* C27: a file with a class definition, a schema block of size 0 and the
\* root UID 0 was decoded: IndexError, with the cursor before the UID.
C27_Witness ==
    /\ pc = "file" /\ Len(hist) = 1 /\ Last.op = "deserialise"
    /\ GoodHeader(f)
    /\ Len(hxs.classdefs) = 1 /\ hxs.schemas = <<>>
    /\ err = "IndexError"
    /\ pos = Len(f) - 1 /\ f[Len(f)] = 0

\* C28: a read of a PObj value that is not null returns a mapping with as
\* many entries as the type declares fields, under keys that differ from
\* field to field, each entry holding what was read for its field; and a
\* write of that mapping writes for each field the bytes of that value.
C28_AllFieldsKept ==
    (pc = "value" /\ typ.kind = PObj)
    => \A k \in 1..Len(hist) :
          (hist[k].op = "read" /\ hist[k].err = OK /\ hist[k].ret # None) =>
             LET h      == hist[k]
                 fields == typ.defn.fields
                 ev(j)  == h.log[CHOOSE i \in FieldReads(h, j) : TRUE]
                 got(j) == IF ev(j).uid = 0 THEN None
                           ELSE IF fields[j].type # Absent
                           THEN ReadAt(h.arg, ev(j).from, fields[j].type).val
                           ELSE ReadString([NewHXSFile EXCEPT !.f = h.arg,
                                                             !.pos = ev(j).from]).val
             IN  /\ Len(h.ret.v) = Len(fields)
                 /\ \A i, j \in 1..Len(fields) :
                       i # j => ~KeyEq(KeyOf(fields, i), KeyOf(fields, j))
                 /\ \A j \in 1..Len(fields) : DictGet(h.ret.v, KeyOf(fields, j)) = got(j)
                 /\ (k < Len(hist) /\ hist[k + 1].op = "write" /\ hist[k + 1].err = OK) =>
                       \A j \in 1..Len(fields) :
                          (got(j) # None /\ fields[j].type # Absent) =>
                             FieldBytes(hist[k + 1], j)
                                = WriteValue(NewHXSFile, fields[j].type, got(j)).buffer

====
